---- MODULE Spec2Model ----
(***************************************************************************)
(* Ocha: a mail inbox shown as chat-style groups.  The model covers the    *)
(* React front end (jotai atoms, hooks and component handlers) and the     *)
(* mail backend it invokes through tauri.  Every async handler is a task   *)
(* that advances from await to await: the backend executes the invoked     *)
(* command in one step and the handler's continuation runs in a later one. *)
(***************************************************************************)
EXTENDS Naturals, Integers, Sequences, FiniteSets, TLC

\* ----------------------------------------------------------------- bounds
MaxMsg == 2
MaxTasks == 2

GroupIds == {1, 2, 3}
Emails == {"a", "b", "c"}
NoGroup == 0
DefaultInterval == 5
TabIds == {"t1", "t2"}
NoTab == "null"
TypedIntervals == {-1, 0, 1}
SyncOutcomes == {"ok", "AUTH_REQUIRED", "transient"}

VARIABLES
    bGroups,             \* backend: ids of the stored groups
    bMember,             \* backend: address -> owning group (NoGroup: unbound)
    bMsgs,               \* backend: stored messages, message id = index
    remote,              \* mail server: messages not fetched yet
    groups,              \* groupsAtom (ids)
    selectedGroupId,     \* selectedGroupIdAtom (NoGroup = null)
    unreadCounts,        \* unreadCountsAtom: Record<groupId, count>
    messages,            \* messagesAtom: displayed list
    loading,             \* messagesLoadingAtom
    syncing,             \* syncingAtom
    isAuthError,         \* AppLayout local state
    syncError,           \* AppLayout local state (TRUE: an error text is shown)
    authState,           \* authStateAtom
    syncIntervalMinutes, \* settingsAtom.syncIntervalMinutes
    timers,              \* live setInterval timers of the polling effect (periods)
    timerAge,            \* minutes since the live timer was armed or fired
    messageList,         \* targetMessageIdAtom and MessageList's jump effect
    tabs,                \* tabsAtom (ids)
    activeTab,           \* Sidebar local state: 'main', 'hidden' or a tab id
    groupInfo,           \* groupsAtom: isHidden and tabId of each group
    bTabs,               \* backend: ids of the stored tabs
    bGroupInfo,          \* backend: isHidden and tabId of each group
    messageItem,         \* one MessageItem: its message body and what it shows
    effectPending,       \* useMessages selected-group effect still to run
    editor,              \* GroupEditModal local state
    sidebar,             \* Sidebar local state (merging, mergeTarget)
    tasks,               \* async handlers in flight
    lastOp               \* the handler step taken last (history)

vars == <<bGroups, bMember, bMsgs, remote, groups, selectedGroupId, unreadCounts,
          messages, loading, syncing, isAuthError, syncError, authState,
          syncIntervalMinutes, timers, effectPending, editor, sidebar, tasks,
          lastOp, tabs, activeTab, groupInfo, bTabs, bGroupInfo, messageItem,
          timerAge, messageList>>

backendVars == <<bGroups, bMember, bMsgs, remote>>
layoutVars == <<syncing, isAuthError, syncError, authState, syncIntervalMinutes,
                timers>>
modalVars == <<editor, sidebar>>
tabVars == <<tabs, activeTab, groupInfo, bTabs, bGroupInfo>>

\* targetMessageIdAtom = null
NoMessage == 0

\* no jump requested: no target, the jump effect has run for the current
\* list, no scroll interval and no reset timeout live
NoJump == [target |-> NoMessage, deps |-> <<>>, scrolling |-> FALSE,
           retries |-> 0, clearDue |-> FALSE]

\* a group as sync creates it: shown, in the main collection
DefaultInfo == [isHidden |-> FALSE, tabId |-> NoTab]

\* ------------------------------------------------------------ small helpers
\* unreadCounts[g] || 0
CountOf(counts, g) == IF g \in DOMAIN counts THEN counts[g] ELSE 0

EmptyCounts == [g \in {} |-> 0]

\* const next = { ...prev }; delete next[g]
DeleteKey(counts, g) == [k \in (DOMAIN counts) \ {g} |-> counts[k]]

\* -------------------------------------------------- backend (from the spec)
BMsgIds == 1..Len(bMsgs)

BGroupMsgIds(g) == {m \in BMsgIds : bMsgs[m].groupId = g}

BUnread(g) ==
    Cardinality({m \in BGroupMsgIds(g) : ~bMsgs[m].isRead /\ ~bMsgs[m].isSent})

\* get_unread_counts: [groupId, count] pairs of the groups holding unread mail
BUnreadCounts ==
    [g \in {h \in bGroups : BUnread(h) > 0} |-> BUnread(g)]

BMessage(m) == [id |-> m, groupId |-> bMsgs[m].groupId, isRead |-> bMsgs[m].isRead]

RECURSIVE BMessagesOf(_, _)
BMessagesOf(g, m) ==
    IF m > Len(bMsgs) THEN <<>>
    ELSE IF bMsgs[m].groupId = g THEN <<BMessage(m)>> \o BMessagesOf(g, m + 1)
         ELSE BMessagesOf(g, m + 1)

\* get_messages(groupId)
BGetMessages(g) == BMessagesOf(g, 1)

BMembersOf(g) == {e \in Emails : bMember[e] = g}

\* the id a new group gets: the lowest one above every stored group
BMaxGroupId ==
    IF bGroups = {} THEN 0 ELSE CHOOSE g \in bGroups : \A h \in bGroups : h <= g

FreshGroupId == BMaxGroupId + 1

\* ------------------------------------------------------------------- tasks
\* One async handler in flight.  pc names the await it is parked at; a pc
\* ending in "R" means the backend has answered and the continuation is due.
\* sel and arg are the values the handler's closure captured, r the answer,
\* stale is set once the component that started the handler is unmounted.
\* h is history kept for the properties only: no handler reads it.
IdleTask == [kind |-> "idle", pc |-> "idle", origin |-> "", sel |-> NoGroup,
             arg |-> 0, r |-> <<>>, ok |-> "ok", stale |-> FALSE, h |-> <<>>]

NewTask(kind, pc, origin, sel, arg) ==
    [kind |-> kind, pc |-> pc, origin |-> origin, sel |-> sel, arg |-> arg,
     r |-> <<>>, ok |-> "ok", stale |-> FALSE, h |-> <<>>]

Slots == 1..MaxTasks
HasFree == \E i \in Slots : tasks[i].kind = "idle"
FreeSlot == CHOOSE i \in Slots :
    /\ tasks[i].kind = "idle"
    /\ \A j \in Slots : tasks[j].kind = "idle" => i <= j
Spawn(t) == [tasks EXCEPT ![FreeSlot] = t]

\* tauri.syncMessages() calls the backend has not answered yet
SyncFetches == {i \in Slots : tasks[i].pc = "sync"}

Op(op, g) == [op |-> op, g |-> g, n |-> 0, s |-> NoGroup]

\* GroupEditModal: closed, nothing loaded (the state handleClose leaves);
\* named stands for a non-blank newGroupName
ClosedEditor == [open |-> FALSE, groupId |-> NoGroup, loaded |-> FALSE,
                 members |-> {}, selectedEmails |-> {}, named |-> FALSE,
                 splitting |-> FALSE]

\* The polling effect's cleanup: clearInterval of the timer it armed
PollingCleanup(live) ==
    IF live = <<>> THEN <<>> ELSE SubSeq(live, 1, Len(live) - 1)

PollingEffectKeepingOld(live, minutes) ==
    IF minutes <= 0 THEN live ELSE Append(live, minutes)

\* The polling effect, run on mount and whenever its dependencies change:
\* the previous run is cleaned up, then nothing is armed for an interval
\* <= 0 and setInterval(..., minutes * 60 * 1000) is armed otherwise
PollingEffect(live, minutes) ==
    IF minutes <= 0 THEN PollingCleanup(live)
    ELSE Append(PollingCleanup(live), minutes)

\* ----------------------------------------------------- MessageItem footer
\* A text is a sequence of characters (UTF-16 units); a character outside
\* ASCII is written by its code point.
MaxLines == 3

UpperCase == <<"A", "B", "C", "D", "E", "F", "G", "H", "I", "J", "K", "L", "M", "N", "O",
        "P", "Q", "R", "S", "T", "U", "V", "W", "X", "Y", "Z">>
LowerCase == <<"a", "b", "c", "d", "e", "f", "g", "h", "i", "j", "k", "l", "m", "n", "o",
        "p", "q", "r", "s", "t", "u", "v", "w", "x", "y", "z">>

\* the i flag of a regular expression
Lower(c) ==
    IF \E i \in 1..Len(UpperCase) : UpperCase[i] = c
    THEN LowerCase[CHOOSE i \in 1..Len(UpperCase) : UpperCase[i] = c]
    ELSE c

\* \s among the characters used
Whitespace == {" ", "\t", "\r", "\n"}

\* text.startsWith(prefix), and its case-blind form
StartsWith(text, prefix) ==
    /\ Len(text) >= Len(prefix)
    /\ \A i \in 1..Len(prefix) : text[i] = prefix[i]

StartsWithIgnoringCase(text, prefix) ==
    /\ Len(text) >= Len(prefix)
    /\ \A i \in 1..Len(prefix) : Lower(text[i]) = Lower(prefix[i])

\* text.replace(/\r\n/g, '\n'): a carriage return goes when a line feed
\* follows it
BeforeLineFeed(pair) == pair[1] = "\r" /\ pair[2] = "\n"

KeptByReplaceCrLf(pair) == ~BeforeLineFeed(pair)

ReplaceCrLf(text) ==
    LET pairs == [i \in 1..Len(text) |->
                     <<text[i], IF i < Len(text) THEN text[i + 1] ELSE "">>]
        kept == SelectSeq(pairs, KeptByReplaceCrLf)
    IN [i \in 1..Len(kept) |-> kept[i][1]]

\* text.replace(/\r/g, '\n')
ReplaceCr(text) == [i \in 1..Len(text) |-> IF text[i] = "\r" THEN "\n" ELSE text[i]]

\* text.split('\n')
RECURSIVE Split(_)
Split(text) ==
    IF \A i \in 1..Len(text) : text[i] # "\n" THEN <<text>>
    ELSE LET at == CHOOSE i \in 1..Len(text) :
                      /\ text[i] = "\n"
                      /\ \A j \in 1..(i - 1) : text[j] # "\n"
         IN <<SubSeq(text, 1, at - 1)>> \o Split(SubSeq(text, at + 1, Len(text)))

\* lines.join('\n')
RECURSIVE Join(_)
Join(lines) ==
    IF lines = <<>> THEN <<>>
    ELSE IF Len(lines) = 1 THEN lines[1]
    ELSE lines[1] \o <<"\n">> \o Join(Tail(lines))

\* text.trim()
RECURSIVE Trim(_)
Trim(text) ==
    IF text = <<>> THEN <<>>
    ELSE IF Head(text) \in Whitespace THEN Trim(Tail(text))
    ELSE IF text[Len(text)] \in Whitespace
         THEN Trim(SubSeq(text, 1, Len(text) - 1))
    ELSE text

\* /^--\s*$/
IsSignature(line) ==
    /\ StartsWith(line, <<"-", "-">>)
    /\ \A i \in 3..Len(line) : line[i] \in Whitespace

\* /^[_\-=]{3,}\s*$/
IsRule(line) ==
    \E k \in 3..Len(line) :
        /\ \A i \in 1..k : line[i] \in {"_", "-", "="}
        /\ \A i \in (k + 1)..Len(line) : line[i] \in Whitespace

SentFromMy == <<"S", "e", "n", "t", " ", "f", "r", "o", "m", " ", "m", "y", " ">>
IPhoneKaraSoshin == <<"i", "P", "h", "o", "n", "e", "u304B", "u3089", "u9001", "u4FE1">>

\* /^Sent from my /i or /^iPhone...送信/
IsMobile(line) ==
    \/ StartsWithIgnoringCase(line, SentFromMy)
    \/ StartsWith(line, IPhoneKaraSoshin)

\* line.startsWith('>')
IsQuote(line) == StartsWith(line, <<">">>)

FooterOffsetPastBreak(lines, i) == Len(Join(SubSeq(lines, 1, i - 1))) + 1

\* lines.slice(0, i).join('\n').length, for the line at position i (from 1)
FooterOffset(lines, i) == Len(Join(SubSeq(lines, 1, i - 1)))

FindFooterStartLastMatch(text) ==
    LET lines == Split(text)
        hits == {i \in 1..Len(lines) :
                    \/ IsSignature(lines[i])
                    \/ IsRule(lines[i])
                    \/ IsMobile(lines[i])
                    \/ IsQuote(lines[i])}
    IN IF hits = {} THEN -1
       ELSE FooterOffset(lines, CHOOSE i \in hits : \A j \in hits : i >= j)

\* findFooterStart: the offset before the first line that one of the four
\* tests accepts, -1 when there is none
FindFooterStart(text) ==
    LET lines == Split(text)
        hits == {i \in 1..Len(lines) :
                    \/ IsSignature(lines[i])
                    \/ IsRule(lines[i])
                    \/ IsMobile(lines[i])
                    \/ IsQuote(lines[i])}
    IN IF hits = {} THEN -1
       ELSE FooterOffset(lines, CHOOSE i \in hits : \A j \in hits : i <= j)

MAX_LENGTH == 500

\* the '...' appended to a cut main content
Ellipsis == <<".", ".", ".">>

\* a MessageItem whose body is not worked out yet
Unrendered(bodyText) ==
    [bodyText |-> bodyText, rendered |-> FALSE, isExpanded |-> FALSE,
     fullBody |-> <<>>, footerStart |-> -1, hasFooter |-> FALSE,
     mainBody |-> <<>>, needsTruncation |-> FALSE, displayContent |-> <<>>]

HasFooterAtAnyOffset(footerStart) == footerStart # -1

\* hasFooter
HasFooter(footerStart) == footerStart # -1 /\ footerStart > 0

\* mainBody
MainBody(fullBody, footerStart) ==
    IF HasFooter(footerStart) THEN Trim(SubSeq(fullBody, 1, footerStart))
    ELSE fullBody

NeedsTruncationByLengthOnly(mainBody, hasFooter) == Len(mainBody) > MAX_LENGTH

\* needsTruncation: the expand button is rendered
NeedsTruncation(mainBody, hasFooter) ==
    Len(mainBody) > MAX_LENGTH \/ hasFooter

\* displayContent
DisplayContent(isExpanded, fullBody, mainBody) ==
    IF isExpanded THEN fullBody
    ELSE IF Len(mainBody) > MAX_LENGTH
         THEN SubSeq(mainBody, 1, MAX_LENGTH) \o Ellipsis
    ELSE mainBody

\* MessageItem: what one render works out from the message and isExpanded
RenderItem(bodyText, isExpanded) ==
    LET fullBody == ReplaceCr(ReplaceCrLf(bodyText))
        footerStart == FindFooterStart(fullBody)
        hasFooter == HasFooter(footerStart)
        mainBody == MainBody(fullBody, footerStart)
    IN [bodyText |-> bodyText, rendered |-> TRUE, isExpanded |-> isExpanded,
        fullBody |-> fullBody, footerStart |-> footerStart,
        hasFooter |-> hasFooter, mainBody |-> mainBody,
        needsTruncation |-> NeedsTruncation(mainBody, hasFooter),
        displayContent |-> DisplayContent(isExpanded, fullBody, mainBody)]

\* the first render of a MessageItem: useState(false) for isExpanded
Rendered(bodyText) == RenderItem(bodyText, FALSE)

\* lines a body is put together from
SampleLines ==
    {<<"H", "e", "l", "l", "o">>,
     <<"H", "e", "l", "l", "o", " ", "w", "o", "r", "l", "d">>,
     <<"J", "o", "h", "n", " ", "D", "o", "e">>,
     <<"-", "-">>,
     <<"-", "-", " ">>,
     <<"-", "-", "-">>,
     <<"=", "_", "=">>,
     <<"a", "-", "-">>,
     <<"S", "e", "n", "t", " ", "f", "r", "o", "m", " ", "m", "y", " ", "X">>,
     <<"S", "E", "N", "T", " ", "F", "R", "O", "M", " ", "M", "Y", " ", "X">>,
     <<"i", "P", "h", "o", "n", "e", "u304B", "u3089", "u9001", "u4FE1">>,
     <<">", " ", "h", "i">>,
     <<"O", "n", " ", "1", "/", "1", " ", "B", " ", "w", "r", "o", "t", "e",
        ":">>,
     <<"1", "/", "1", " ", "u5DEE", "u51FA", "u4EBA", ":">>,
     <<>>,
     <<"H", "i", "\r">>}

BodiesOf(n) == {Join(ls) : ls \in [1..n -> SampleLines]}

\* n characters of text without a line break
Filler(n) == [i \in 1..n |-> "a"]

SignatureTail == <<"\n", "-", "-", "\n", "J", "o", "h", "n">>

\* bodies around MAX_LENGTH characters, with and without a footer
LongBodies ==
    {Filler(MAX_LENGTH), Filler(MAX_LENGTH + 1),
     Filler(MAX_LENGTH) \o SignatureTail,
     Filler(MAX_LENGTH + 1) \o SignatureTail,
     <<"H", "i">> \o SignatureTail \o Filler(MAX_LENGTH),
     Filler(MAX_LENGTH - 2) \o <<"\r", "\n", "b">>,
     Filler(MAX_LENGTH - 1) \o <<"\r", "\n", "b">>}

\* bodies of one to MaxLines lines, and the long ones
Bodies == UNION {BodiesOf(n) : n \in 1..MaxLines} \cup LongBodies


\* -------------------------------------------------------------------- Init
\* the groups sync created for the known addresses: a and b share group 1
BResolveInit(e) == IF e = "c" THEN 2 ELSE 1

Init ==
    /\ bGroups = {1, 2}
    /\ bMember = [e \in Emails |-> BResolveInit(e)]
    /\ bMsgs = <<>>
    /\ remote = <<>>
    /\ groups = {}
    /\ selectedGroupId = NoGroup
    /\ unreadCounts = EmptyCounts
    /\ messages = <<>>
    /\ loading = FALSE
    /\ syncing = FALSE
    /\ isAuthError = FALSE
    /\ syncError = FALSE
    /\ authState = "loading"
    /\ syncIntervalMinutes = DefaultInterval
    /\ timers = <<>>
    /\ effectPending = FALSE
    /\ editor = ClosedEditor
    /\ sidebar = [merging |-> FALSE, source |-> NoGroup, target |-> NoGroup]
    /\ tasks = [i \in Slots |-> IdleTask]
    /\ lastOp = Op("other", NoGroup)
    /\ tabs = {}
    /\ activeTab = "main"
    /\ groupInfo = [g \in GroupIds |-> DefaultInfo]
    /\ bTabs = {}
    /\ bGroupInfo = [g \in GroupIds |-> DefaultInfo]
    /\ messageItem = Rendered(<<>>)
    /\ timerAge = 0
    /\ messageList = NoJump

\* ----------------------------------------------------- backend: sync_messages
\* The group a new message attaches to: the group owning its address.
BResolve(e) == bMember[e]

\* mail reaches the mailbox on the server
MailArrives ==
    /\ Len(bMsgs) + Len(remote) < MaxMsg
    /\ \E e \in Emails, sent \in BOOLEAN :
         /\ BResolve(e) # NoGroup
         /\ remote' = Append(remote, [email |-> e, isSent |-> sent])
    /\ lastOp' = Op("other", NoGroup)
    /\ UNCHANGED <<bGroups, bMember, bMsgs, groups, selectedGroupId,
                   unreadCounts, messages, loading, layoutVars, effectPending,
                   modalVars, tasks>>
    /\ UNCHANGED tabVars
    /\ UNCHANGED messageItem
    /\ UNCHANGED messageList
    /\ UNCHANGED timerAge

RECURSIVE BStore(_, _)
BStore(stored, batch) ==
    IF batch = <<>> THEN stored
    ELSE BStore(Append(stored,
                  [email |-> Head(batch).email,
                   groupId |-> BResolve(Head(batch).email),
                   isRead |-> FALSE, isSent |-> Head(batch).isSent]),
                Tail(batch))

\* sync_messages succeeds: the waiting messages are stored as one unit, each
\* under a new id, and the answer lists exactly the messages stored
BackendSyncOk(i) ==
    /\ tasks[i].pc = "sync"
    /\ bMsgs' = BStore(bMsgs, remote)
    /\ remote' = <<>>
    /\ tasks' = [tasks EXCEPT ![i].pc = "syncR", ![i].ok = "ok",
           ![i].r = [k \in 1..Len(remote) |->
                        [id |-> Len(bMsgs) + k,
                         groupId |-> BResolve(remote[k].email),
                         isRead |-> FALSE]]]
    /\ UNCHANGED <<bGroups, bMember, groups, selectedGroupId, unreadCounts,
                   messages, loading, layoutVars, effectPending, modalVars,
                   lastOp>>
    /\ UNCHANGED tabVars
    /\ UNCHANGED messageItem
    /\ UNCHANGED messageList
    /\ UNCHANGED timerAge

\* sync_messages fails: authentication required, or a transient error
BackendSyncFail(i) ==
    /\ tasks[i].pc = "sync"
    /\ \E outcome \in SyncOutcomes \ {"ok"} :
         tasks' = [tasks EXCEPT ![i].pc = "syncR", ![i].ok = outcome]
    /\ UNCHANGED <<backendVars, groups, selectedGroupId, unreadCounts, messages,
                   loading, layoutVars, effectPending, modalVars, lastOp>>
    /\ UNCHANGED tabVars
    /\ UNCHANGED messageItem
    /\ UNCHANGED messageList
    /\ UNCHANGED timerAge

\* get_groups, get_unread_counts, get_messages: reads of the current store
BackendRead(i) ==
    /\ tasks[i].pc \in {"groups", "counts", "msgs", "tabs"}
    /\ tasks' = [tasks EXCEPT
          ![i].pc = CASE tasks[i].pc = "groups" -> "groupsR"
                      [] tasks[i].pc = "counts" -> "countsR"
                      [] tasks[i].pc = "msgs" -> "msgsR"
                      [] tasks[i].pc = "tabs" -> "tabsR",
          ![i].r = CASE tasks[i].pc = "groups" ->
                            [ids |-> bGroups, info |-> bGroupInfo]
                     [] tasks[i].pc = "counts" -> BUnreadCounts
                     [] tasks[i].pc = "msgs" -> BGetMessages(tasks[i].sel)
                     [] tasks[i].pc = "tabs" -> bTabs]
    /\ UNCHANGED <<backendVars, groups, selectedGroupId, unreadCounts, messages,
                   loading, layoutVars, effectPending, modalVars, lastOp>>
    /\ UNCHANGED tabVars
    /\ UNCHANGED messageItem
    /\ UNCHANGED messageList
    /\ UNCHANGED timerAge

\* ------------------------------------------------- useMessages.syncMessages
RECURSIVE FilterGroup(_, _)
FilterGroup(s, g) ==
    IF s = <<>> THEN <<>>
    ELSE IF Head(s).groupId = g THEN <<Head(s)>> \o FilterGroup(Tail(s), g)
         ELSE FilterGroup(Tail(s), g)

\* the list after a successful sync: the new messages of the group the
\* closure captured are appended to the displayed list
SyncMessagesApply(prev, newMessages, sel) ==
    IF sel # NoGroup /\ FilterGroup(newMessages, sel) # <<>>
    THEN prev \o FilterGroup(newMessages, sel)
    ELSE prev

\* ---------------------------------------------------- AppLayout.refreshAll
\* refreshAll up to its first await: setSyncError(null), then syncMessages()
\* sets loading and invokes sync_messages.  No guard on a sync in progress.
StartRefreshAll(origin) ==
    /\ HasFree
    /\ syncError' = FALSE
    /\ loading' = TRUE
    /\ tasks' = Spawn(NewTask("refreshAll", "sync", origin, selectedGroupId, 0))

\* the sidebar's refresh button (onRefresh = refreshAll)
ManualRefresh ==
    /\ authState = "authenticated"
    /\ ~effectPending
    /\ StartRefreshAll("manual")
    /\ lastOp' = Op("other", NoGroup)
    /\ UNCHANGED <<backendVars, groups, selectedGroupId, unreadCounts, messages,
                   syncing, isAuthError, authState, syncIntervalMinutes, timers,
                   effectPending, modalVars>>
    /\ UNCHANGED tabVars
    /\ UNCHANGED messageItem
    /\ UNCHANGED messageList
    /\ UNCHANGED timerAge

\* the setInterval callback of the polling effect
PeriodicTick ==
    /\ timers # <<>>
    /\ ~syncing
    /\ StartRefreshAll("timer")
    /\ lastOp' = Op("other", NoGroup)
    /\ UNCHANGED <<backendVars, groups, selectedGroupId, unreadCounts, messages,
                   syncing, isAuthError, authState, syncIntervalMinutes, timers,
                   effectPending, modalVars>>
    /\ UNCHANGED tabVars
    /\ UNCHANGED messageItem
    /\ UNCHANGED messageList
    /\ timerAge' = 0

\* refreshAll after await syncMessages(): on success go on to fetchGroups,
\* on failure the catch block files the error as auth or sync error
RefreshAllSyncCont(i) ==
    LET t == tasks[i] IN
    /\ t.kind = "refreshAll" /\ t.pc = "syncR"
    /\ loading' = FALSE
    /\ IF t.ok = "ok"
       THEN /\ messages' = SyncMessagesApply(messages, t.r, t.sel)
            /\ tasks' = [tasks EXCEPT ![i].pc = "groups", ![i].r = <<>>]
            /\ lastOp' = Op("other", NoGroup)
            /\ UNCHANGED <<isAuthError, syncError>>
       ELSE /\ tasks' = [tasks EXCEPT ![i] = IdleTask]
            /\ isAuthError' = IF ~t.stale /\ t.ok = "AUTH_REQUIRED"
                              THEN TRUE ELSE isAuthError
            /\ syncError' = IF ~t.stale /\ t.ok # "AUTH_REQUIRED"
                            THEN TRUE ELSE syncError
            /\ lastOp' = Op("other", NoGroup)
            /\ UNCHANGED messages
    /\ UNCHANGED <<backendVars, groups, selectedGroupId, unreadCounts, syncing,
                   authState, syncIntervalMinutes, timers, effectPending,
                   modalVars>>
    /\ UNCHANGED tabVars
    /\ UNCHANGED messageItem
    /\ UNCHANGED messageList
    /\ UNCHANGED timerAge

\* refreshAll after await fetchGroups(): setGroups, then fetchUnreadCounts
RefreshAllGroupsCont(i) ==
    LET t == tasks[i] IN
    /\ t.kind = "refreshAll" /\ t.pc = "groupsR"
    /\ groups' = t.r.ids
    /\ groupInfo' = t.r.info
    /\ tasks' = [tasks EXCEPT ![i].pc = "counts", ![i].r = <<>>]
    /\ lastOp' = Op("other", NoGroup)
    /\ UNCHANGED <<backendVars, selectedGroupId, unreadCounts, messages, loading,
                   layoutVars, effectPending, modalVars>>
    /\ UNCHANGED <<tabs, activeTab, bTabs, bGroupInfo>>
    /\ UNCHANGED messageItem
    /\ UNCHANGED messageList
    /\ UNCHANGED timerAge

\* refreshAll after await fetchUnreadCounts(): setUnreadCounts, then
\* fetchMessages(selectedGroupId) when the closure holds a selection
RefreshAllCountsCont(i) ==
    LET t == tasks[i] IN
    /\ t.kind = "refreshAll" /\ t.pc = "countsR"
    /\ unreadCounts' = t.r
    /\ IF t.sel # NoGroup
       THEN /\ loading' = TRUE
            /\ tasks' = [tasks EXCEPT ![i].pc = "msgs", ![i].r = <<>>]
       ELSE /\ tasks' = [tasks EXCEPT ![i] = IdleTask]
            /\ UNCHANGED loading
    /\ lastOp' = Op("other", NoGroup)
    /\ UNCHANGED <<backendVars, groups, selectedGroupId, messages, layoutVars,
                   effectPending, modalVars>>
    /\ UNCHANGED tabVars
    /\ UNCHANGED messageItem
    /\ UNCHANGED messageList
    /\ UNCHANGED timerAge

\* fetchMessages after await getMessages(): setMessages(data), loading off
FetchMessagesCont(i) ==
    LET t == tasks[i] IN
    /\ t.pc = "msgsR"
    /\ messages' = t.r
    /\ loading' = FALSE
    /\ tasks' = [tasks EXCEPT ![i] = IdleTask]
    /\ lastOp' = Op("other", NoGroup)
    /\ UNCHANGED <<backendVars, groups, selectedGroupId, unreadCounts,
                   layoutVars, effectPending, modalVars>>
    /\ UNCHANGED tabVars
    /\ UNCHANGED messageItem
    /\ UNCHANGED messageList
    /\ UNCHANGED timerAge

\* ------------------------------------------------------ ChatView.handleSync
\* the chat header's sync button: shown for the selected group, disabled
\* while syncingAtom is set; calls syncMessages() directly
HandleSync ==
    /\ authState = "authenticated"
    /\ ~effectPending
    /\ selectedGroupId \in groups
    /\ ~syncing
    /\ HasFree
    /\ loading' = TRUE
    /\ tasks' = Spawn(NewTask("handleSync", "sync", "header", selectedGroupId, 0))
    /\ lastOp' = Op("other", NoGroup)
    /\ UNCHANGED <<backendVars, groups, selectedGroupId, unreadCounts, messages,
                   layoutVars, effectPending, modalVars>>
    /\ UNCHANGED tabVars
    /\ UNCHANGED messageItem
    /\ UNCHANGED messageList
    /\ UNCHANGED timerAge

\* handleSync after await syncMessages(): a failure is only logged
HandleSyncCont(i) ==
    LET t == tasks[i] IN
    /\ t.kind = "handleSync" /\ t.pc = "syncR"
    /\ loading' = FALSE
    /\ messages' = IF t.ok = "ok" THEN SyncMessagesApply(messages, t.r, t.sel)
                   ELSE messages
    /\ tasks' = [tasks EXCEPT ![i] = IdleTask]
    /\ lastOp' = Op("other", NoGroup)
    /\ UNCHANGED <<backendVars, groups, selectedGroupId, unreadCounts,
                   layoutVars, effectPending, modalVars>>
    /\ UNCHANGED tabVars
    /\ UNCHANGED messageItem
    /\ UNCHANGED messageList
    /\ UNCHANGED timerAge

\* ----------------------------------------------------------------- useAuth
\* checkStatus after await checkAuthStatus(), from the 'loading' state; an
\* authenticated result renders AppLayout, whose mount effect runs refreshAll
Mount ==
    /\ StartRefreshAll("mount")
    /\ isAuthError' = FALSE
    /\ timers' = PollingEffect(timers, syncIntervalMinutes)

CheckStatusDone ==
    /\ authState = "loading"
    /\ \E result \in {"needs_config", "unauthenticated", "authenticated"} :
         /\ authState' = result
         /\ IF result = "authenticated"
            THEN Mount
            ELSE UNCHANGED <<isAuthError, syncError, loading, tasks, timers>>
    /\ lastOp' = Op("other", NoGroup)
    /\ UNCHANGED <<backendVars, groups, selectedGroupId, unreadCounts, messages,
                   syncing, syncIntervalMinutes, effectPending, modalVars>>
    /\ UNCHANGED tabVars
    /\ UNCHANGED messageItem
    /\ UNCHANGED messageList
    /\ timerAge' = 0

\* LoginScreen: saveConfig, then startLogin after await performOAuth()
StartLogin ==
    /\ authState \in {"needs_config", "unauthenticated"}
    /\ IF authState = "needs_config"
       THEN /\ authState' = "unauthenticated"
            /\ UNCHANGED <<isAuthError, syncError, loading, tasks, timers>>
       ELSE /\ authState' = "authenticated"
            /\ Mount
    /\ lastOp' = Op("other", NoGroup)
    /\ UNCHANGED <<backendVars, groups, selectedGroupId, unreadCounts, messages,
                   syncing, syncIntervalMinutes, effectPending, modalVars>>
    /\ UNCHANGED tabVars
    /\ UNCHANGED messageItem
    /\ UNCHANGED messageList
    /\ timerAge' = 0

LogoutClearingCache ==
    /\ authState' = "needs_config"
    /\ tasks' = [i \in Slots |->
                    IF tasks[i].kind = "idle" THEN tasks[i]
                    ELSE [tasks[i] EXCEPT !.stale = TRUE]]
    /\ editor' = ClosedEditor
    /\ sidebar' = [merging |-> FALSE, source |-> NoGroup, target |-> NoGroup]
    /\ timers' = PollingCleanup(timers)
    /\ activeTab' = "main"
    /\ groups' = {}
    /\ unreadCounts' = EmptyCounts
    /\ messages' = <<>>
    /\ UNCHANGED selectedGroupId

\* logout after await tauri.logout(): the session atoms (account, OAuth
\* config, auth state) are cleared, the cache atoms are left alone, and
\* AppLayout is unmounted; its handlers in flight keep running
Logout ==
    /\ authState' = "needs_config"
    /\ timers' = PollingCleanup(timers)
    /\ activeTab' = "main"
    /\ UNCHANGED <<groups, selectedGroupId, unreadCounts, messages>>
    /\ tasks' = [i \in Slots |->
                    IF tasks[i].kind = "idle" THEN tasks[i]
                    ELSE [tasks[i] EXCEPT !.stale = TRUE]]
    /\ editor' = ClosedEditor
    /\ sidebar' = [merging |-> FALSE, source |-> NoGroup, target |-> NoGroup]

\* the session-expired dialog's only button: handleAuthErrorConfirm
HandleAuthErrorConfirm ==
    /\ authState = "authenticated"
    /\ isAuthError
    /\ isAuthError' = FALSE
    /\ Logout
    /\ lastOp' = Op("logout", NoGroup)
    /\ UNCHANGED <<backendVars, loading, syncing, syncError, syncIntervalMinutes,
                   effectPending>>
    /\ UNCHANGED <<tabs, groupInfo, bTabs, bGroupInfo>>
    /\ UNCHANGED messageItem
    /\ UNCHANGED messageList
    /\ timerAge' = 0

\* SettingsModal.executeLogout after await logout()
ExecuteLogout ==
    /\ authState = "authenticated"
    /\ Logout
    /\ lastOp' = Op("logout", NoGroup)
    /\ UNCHANGED <<backendVars, loading, syncing, isAuthError, syncError,
                   syncIntervalMinutes, effectPending>>
    /\ UNCHANGED <<tabs, groupInfo, bTabs, bGroupInfo>>
    /\ UNCHANGED messageItem
    /\ UNCHANGED messageList
    /\ timerAge' = 0

\* the interval typed into the settings form: parseInt(e.target.value) || 5
ParseInterval(typed) == IF typed = 0 THEN DefaultInterval ELSE typed

\* SettingsModal.handleSave after await updateSettings(localSettings):
\* setSettings(localSettings); AppLayout's polling effect runs again when
\* the interval changed
HandleSave(typed) ==
    /\ authState = "authenticated"
    /\ syncIntervalMinutes' = ParseInterval(typed)
    /\ timers' = IF syncIntervalMinutes' = syncIntervalMinutes THEN timers
                 ELSE PollingEffect(timers, syncIntervalMinutes')
    /\ lastOp' = Op("other", NoGroup)
    /\ UNCHANGED <<backendVars, groups, selectedGroupId, unreadCounts, messages,
                   loading, syncing, isAuthError, syncError, authState,
                   effectPending, modalVars, tasks>>
    /\ UNCHANGED tabVars
    /\ UNCHANGED messageItem
    /\ UNCHANGED messageList
    /\ timerAge' = IF syncIntervalMinutes' = syncIntervalMinutes THEN timerAge
                   ELSE 0

\* the error banner's dismiss button: setSyncError(null)
DismissSyncError ==
    /\ authState = "authenticated"
    /\ syncError
    /\ syncError' = FALSE
    /\ lastOp' = Op("other", NoGroup)
    /\ UNCHANGED <<backendVars, groups, selectedGroupId, unreadCounts, messages,
                   loading, syncing, isAuthError, authState, syncIntervalMinutes,
                   timers,
                   effectPending, modalVars, tasks>>
    /\ UNCHANGED tabVars
    /\ UNCHANGED messageItem
    /\ UNCHANGED messageList
    /\ UNCHANGED timerAge

\* ------------------------------------------------------ useGroups.selectGroup
\* selectGroup(g) up to its await: setSelectedGroupId(g), then
\* mark_group_as_read is invoked; the selected-group effect of useMessages
\* is due when the id changed
StartSelectGroup(g) ==
    /\ HasFree
    /\ selectedGroupId' = g
    /\ effectPending' = (effectPending \/ g # selectedGroupId)
    /\ tasks' = Spawn(NewTask("selectGroup", "mark", "", g, 0))

\* a click on a group of the sidebar list
ClickGroup(g) ==
    /\ authState = "authenticated"
    /\ ~effectPending
    /\ g \in groups
    /\ StartSelectGroup(g)
    /\ lastOp' = Op("other", NoGroup)
    /\ UNCHANGED <<backendVars, groups, unreadCounts, messages, loading,
                   layoutVars, modalVars>>
    /\ UNCHANGED tabVars
    /\ UNCHANGED messageItem
    /\ UNCHANGED messageList
    /\ UNCHANGED timerAge

\* mark_group_as_read: every message of the group becomes read; a group
\* that does not exist has no messages and nothing changes
BackendMarkGroupAsRead(i) ==
    /\ tasks[i].pc = "mark"
    /\ bMsgs' = [m \in BMsgIds |->
                    IF bMsgs[m].groupId = tasks[i].sel
                    THEN [bMsgs[m] EXCEPT !.isRead = TRUE] ELSE bMsgs[m]]
    /\ tasks' = [tasks EXCEPT ![i].pc = "markR"]
    /\ UNCHANGED <<bGroups, bMember, remote, groups, selectedGroupId, unreadCounts,
                   messages, loading, layoutVars, effectPending, modalVars,
                   lastOp>>
    /\ UNCHANGED tabVars
    /\ UNCHANGED messageItem
    /\ UNCHANGED messageList
    /\ UNCHANGED timerAge

SelectGroupDecrement(counts, g) ==
    IF g \in DOMAIN counts THEN [counts EXCEPT ![g] = @ - 1] ELSE counts

\* setUnreadCounts(prev => { delete next[groupId] })
SelectGroupApply(counts, g) == DeleteKey(counts, g)

\* selectGroup after await markGroupAsRead(g)
SelectGroupCont(i) ==
    LET t == tasks[i] IN
    /\ t.kind = "selectGroup" /\ t.pc = "markR"
    /\ unreadCounts' = SelectGroupApply(unreadCounts, t.sel)
    /\ tasks' = [tasks EXCEPT ![i] = IdleTask]
    /\ lastOp' = IF t.origin = "merge"
                 THEN [op |-> "mergeDone", g |-> t.sel, n |-> t.h[1], s |-> t.arg]
                 ELSE [op |-> "selectGroup", g |-> t.sel, s |-> NoGroup,
                       n |-> IF lastOp.op = "selectGroup" /\ lastOp.g = t.sel
                             THEN 2 ELSE 1]
    /\ UNCHANGED <<backendVars, groups, selectedGroupId, messages, loading,
                   layoutVars, effectPending, modalVars>>
    /\ UNCHANGED tabVars
    /\ UNCHANGED messageItem
    /\ UNCHANGED messageList
    /\ UNCHANGED timerAge

\* useMessages: the effect on selectedGroupId.  React runs a pending effect
\* before it handles the next user event, so the click handlers wait for it.
\* AppLayout's refreshAll has selectedGroupId among its dependencies and the
\* polling effect has refreshAll among its own, so the polling effect runs
\* again in the same pass: clearInterval, then setInterval with the same
\* period, which starts to count from zero.
SelectionEffect ==
    /\ effectPending
    /\ effectPending' = FALSE
    /\ IF selectedGroupId # NoGroup
       THEN /\ HasFree
            /\ loading' = TRUE
            /\ tasks' = Spawn(NewTask("fetchMessages", "msgs", "", selectedGroupId, 0))
            /\ UNCHANGED messages
       ELSE /\ messages' = <<>>
            /\ UNCHANGED <<loading, tasks>>
    /\ lastOp' = Op("other", NoGroup)
    /\ UNCHANGED <<backendVars, groups, selectedGroupId, unreadCounts,
                   layoutVars, modalVars>>
    /\ UNCHANGED tabVars
    /\ UNCHANGED messageItem
    /\ UNCHANGED messageList
    /\ timerAge' = 0

\* useMessages: the 'new-messages' listener refetches the open group
NewMessagesEvent ==
    /\ authState = "authenticated"
    /\ selectedGroupId # NoGroup
    /\ HasFree
    /\ loading' = TRUE
    /\ tasks' = Spawn(NewTask("fetchMessages", "msgs", "new-messages",
                              selectedGroupId, 0))
    /\ lastOp' = Op("other", NoGroup)
    /\ UNCHANGED <<backendVars, groups, selectedGroupId, unreadCounts, messages,
                   layoutVars, effectPending, modalVars>>
    /\ UNCHANGED tabVars
    /\ UNCHANGED messageItem
    /\ UNCHANGED messageList
    /\ UNCHANGED timerAge

\* ----------------------------------------------------------- specification
SyncNext ==
    \/ CheckStatusDone
    \/ StartLogin
    \/ ManualRefresh
    \/ PeriodicTick
    \/ HandleSync
    \/ HandleAuthErrorConfirm
    \/ DismissSyncError
    \/ \E g \in GroupIds : ClickGroup(g)
    \/ SelectionEffect
    \/ NewMessagesEvent
    \/ \E i \in Slots : BackendSyncOk(i)
    \/ \E i \in Slots : BackendSyncFail(i)
    \/ \E i \in Slots : BackendRead(i)
    \/ \E i \in Slots : BackendMarkGroupAsRead(i)
    \/ \E i \in Slots : RefreshAllSyncCont(i)
    \/ \E i \in Slots : RefreshAllGroupsCont(i)
    \/ \E i \in Slots : RefreshAllCountsCont(i)
    \/ \E i \in Slots : FetchMessagesCont(i)
    \/ \E i \in Slots : HandleSyncCont(i)
    \/ \E i \in Slots : SelectGroupCont(i)

Spec == Init /\ [][SyncNext]_vars

\* GroupEditModal renders (and covers the window) once its group is loaded
ModalShown == editor.open /\ editor.loaded

\* selectedGroupAtom: groups.find(g => g.id === selectedId) ?? null
SelectedGroup == IF selectedGroupId \in groups THEN selectedGroupId ELSE NoGroup

\* --------------------------------------------------- useMessages.markAsRead
\* markAsRead(messageId) up to its await, for a message of the shown list
MarkAsRead(m) ==
    /\ authState = "authenticated"
    /\ ~effectPending
    /\ \E k \in 1..Len(messages) : messages[k].id = m
    /\ HasFree
    /\ tasks' = Spawn(NewTask("markAsRead", "read", "", NoGroup, m))
    /\ lastOp' = Op("other", NoGroup)
    /\ UNCHANGED <<backendVars, groups, selectedGroupId, unreadCounts, messages,
                   loading, layoutVars, effectPending, modalVars>>
    /\ UNCHANGED tabVars
    /\ UNCHANGED messageItem
    /\ UNCHANGED messageList
    /\ UNCHANGED timerAge

\* mark_as_read: the message becomes read.  The answer is empty.  When the
\* call finds the message unread and not sent, h records its group and the
\* unread count the front end shows for that group.
BackendMarkAsRead(i) ==
    LET m == tasks[i].arg IN
    /\ tasks[i].pc = "read"
    /\ bMsgs' = IF m \in BMsgIds THEN [bMsgs EXCEPT ![m].isRead = TRUE]
                ELSE bMsgs
    /\ tasks' = [tasks EXCEPT ![i].pc = "readR",
           ![i].h = IF m \in BMsgIds /\ ~bMsgs[m].isRead /\ ~bMsgs[m].isSent
                    THEN <<bMsgs[m].groupId, CountOf(unreadCounts, bMsgs[m].groupId)>>
                    ELSE <<>>]
    /\ UNCHANGED <<bGroups, bMember, remote, groups, selectedGroupId,
                   unreadCounts, messages, loading, layoutVars, effectPending,
                   modalVars, lastOp>>
    /\ UNCHANGED tabVars
    /\ UNCHANGED messageItem
    /\ UNCHANGED messageList
    /\ UNCHANGED timerAge

\* setMessages(prev => prev.map(m => m.id === messageId ? {...m, isRead: true} : m))
MarkAsReadApply(prev, m) ==
    [k \in 1..Len(prev) |->
        IF prev[k].id = m THEN [prev[k] EXCEPT !.isRead = TRUE] ELSE prev[k]]

\* markAsRead after await tauri.markAsRead(messageId)
MarkAsReadCont(i) ==
    LET t == tasks[i] IN
    /\ t.kind = "markAsRead" /\ t.pc = "readR"
    /\ messages' = MarkAsReadApply(messages, t.arg)
    /\ tasks' = [tasks EXCEPT ![i] = IdleTask]
    /\ lastOp' = IF t.h # <<>>
                 THEN [op |-> "markAsReadUnread", g |-> t.h[1], n |-> t.h[2],
                       s |-> NoGroup]
                 ELSE Op("markAsRead", NoGroup)
    /\ UNCHANGED <<backendVars, groups, selectedGroupId, unreadCounts, loading,
                   layoutVars, effectPending, modalVars>>
    /\ UNCHANGED tabVars
    /\ UNCHANGED messageItem
    /\ UNCHANGED messageList
    /\ UNCHANGED timerAge

\* ------------------------------------------------- notification_clicked
\* the listener calls selectGroup(event.payload.groupId) for any truthy id
NotificationClicked(g) ==
    /\ authState = "authenticated"
    /\ StartSelectGroup(g)
    /\ lastOp' = Op("notificationClicked", g)
    /\ UNCHANGED <<backendVars, groups, unreadCounts, messages, loading,
                   layoutVars, modalVars>>
    /\ UNCHANGED tabVars
    /\ UNCHANGED messageItem
    /\ UNCHANGED messageList
    /\ UNCHANGED timerAge

\* ------------------------------------------------------- Sidebar merge flow
HandleDragEndAnyPair(source, target) ==
    /\ authState = "authenticated"
    /\ ~effectPending
    /\ ~ModalShown
    /\ sidebar.source = NoGroup
    /\ source \in groups /\ target \in groups
    /\ IF sidebar.merging
       THEN /\ sidebar' = sidebar
            /\ lastOp' = [op |-> "dragRefused", g |-> source, n |-> 0,
                          s |-> target]
       ELSE /\ sidebar' = [sidebar EXCEPT !.source = source, !.target = target]
            /\ lastOp' = Op("other", NoGroup)
    /\ UNCHANGED <<backendVars, groups, selectedGroupId, unreadCounts, messages,
                   loading, layoutVars, effectPending, editor, tasks>>
    /\ UNCHANGED tabVars
    /\ UNCHANGED messageItem
    /\ UNCHANGED messageList
    /\ UNCHANGED timerAge

\* a group row dropped on a group row: handleDragEnd returns at once when
\* both are the same row or a merge is running, else opens the confirmation
HandleDragEnd(source, target) ==
    /\ authState = "authenticated"
    /\ ~effectPending
    /\ ~ModalShown
    /\ sidebar.source = NoGroup
    /\ source \in groups /\ target \in groups
    /\ IF source = target \/ sidebar.merging
       THEN /\ sidebar' = sidebar
            /\ lastOp' = [op |-> "dragRefused", g |-> source, n |-> 0,
                          s |-> target]
       ELSE /\ sidebar' = [sidebar EXCEPT !.source = source, !.target = target]
            /\ lastOp' = Op("other", NoGroup)
    /\ UNCHANGED <<backendVars, groups, selectedGroupId, unreadCounts, messages,
                   loading, layoutVars, effectPending, editor, tasks>>
    /\ UNCHANGED tabVars
    /\ UNCHANGED messageItem
    /\ UNCHANGED messageList
    /\ UNCHANGED timerAge

\* the confirmation's onCancel
MergeCancel ==
    /\ sidebar.source # NoGroup
    /\ sidebar' = [sidebar EXCEPT !.source = NoGroup, !.target = NoGroup]
    /\ lastOp' = Op("other", NoGroup)
    /\ UNCHANGED <<backendVars, groups, selectedGroupId, unreadCounts, messages,
                   loading, layoutVars, effectPending, editor, tasks>>
    /\ UNCHANGED tabVars
    /\ UNCHANGED messageItem
    /\ UNCHANGED messageList
    /\ UNCHANGED timerAge

\* the confirmation's onConfirm up to await mergeGroups(target.id, source.id)
MergeConfirm ==
    /\ sidebar.source # NoGroup
    /\ HasFree
    /\ sidebar' = [merging |-> TRUE, source |-> NoGroup, target |-> NoGroup]
    /\ tasks' = Spawn(NewTask("merge", "merge", "", sidebar.target, sidebar.source))
    /\ lastOp' = Op("other", NoGroup)
    /\ UNCHANGED <<backendVars, groups, selectedGroupId, unreadCounts, messages,
                   loading, layoutVars, effectPending, editor>>
    /\ UNCHANGED tabVars
    /\ UNCHANGED messageItem
    /\ UNCHANGED messageList
    /\ UNCHANGED timerAge

\* merge_groups, one unit: members and messages of the source move to the
\* target and the source is deleted.  It fails, changing nothing, for equal
\* or unknown groups, and may fail for a reason of its own.  h records the
\* sum of the unread counts the two groups had before the merge.
BackendMerge(i) ==
    LET target == tasks[i].sel
        source == tasks[i].arg
    IN
    /\ tasks[i].pc = "merge"
    /\ \E fails \in BOOLEAN :
         IF fails \/ target = source \/ {target, source} \ bGroups # {}
         THEN /\ tasks' = [tasks EXCEPT ![i].pc = "mergeR", ![i].ok = "failed"]
              /\ UNCHANGED <<backendVars, bGroupInfo>>
         ELSE /\ bMember' = [e \in Emails |->
                                IF bMember[e] = source THEN target ELSE bMember[e]]
              /\ bMsgs' = [m \in BMsgIds |->
                              IF bMsgs[m].groupId = source
                              THEN [bMsgs[m] EXCEPT !.groupId = target]
                              ELSE bMsgs[m]]
              /\ bGroups' = bGroups \ {source}
              /\ bGroupInfo' = [bGroupInfo EXCEPT ![source] = DefaultInfo]
              /\ tasks' = [tasks EXCEPT ![i].pc = "mergeR", ![i].ok = "ok",
                     ![i].h = <<BUnread(target) + BUnread(source)>>]
              /\ UNCHANGED remote
    /\ UNCHANGED <<groups, selectedGroupId, unreadCounts, messages, loading,
                   layoutVars, effectPending, modalVars, lastOp>>
    /\ UNCHANGED <<tabs, activeTab, groupInfo, bTabs>>
    /\ UNCHANGED messageItem
    /\ UNCHANGED messageList
    /\ UNCHANGED timerAge

MergeContDroppingSource(i) ==
    LET t == tasks[i] IN
    /\ t.kind = "merge" /\ t.pc = "mergeR"
    /\ IF t.ok = "ok"
       THEN /\ tasks' = [tasks EXCEPT ![i].pc = "groups"]
            /\ UNCHANGED <<sidebar, groups>>
            /\ lastOp' = Op("other", NoGroup)
       ELSE /\ tasks' = [tasks EXCEPT ![i] = IdleTask]
            /\ groups' = groups \ {t.arg}
            /\ sidebar' = IF t.stale THEN sidebar
                          ELSE [sidebar EXCEPT !.merging = FALSE]
            /\ lastOp' = Op("mergeFailed", t.sel)
    /\ UNCHANGED <<backendVars, selectedGroupId, unreadCounts, messages, loading,
                   layoutVars, effectPending, editor>>
    /\ UNCHANGED tabVars
    /\ UNCHANGED messageItem
    /\ UNCHANGED messageList
    /\ UNCHANGED timerAge

\* onConfirm after await mergeGroups: a failure is logged and only the
\* merging flag is reset; a success goes on to getGroups()
MergeCont(i) ==
    LET t == tasks[i] IN
    /\ t.kind = "merge" /\ t.pc = "mergeR"
    /\ IF t.ok = "ok"
       THEN /\ tasks' = [tasks EXCEPT ![i].pc = "groups"]
            /\ UNCHANGED <<sidebar, groups>>
            /\ lastOp' = Op("other", NoGroup)
       ELSE /\ tasks' = [tasks EXCEPT ![i] = IdleTask]
            /\ UNCHANGED groups
            /\ sidebar' = IF t.stale THEN sidebar
                          ELSE [sidebar EXCEPT !.merging = FALSE]
            /\ lastOp' = Op("mergeFailed", t.sel)
    /\ UNCHANGED <<backendVars, selectedGroupId, unreadCounts, messages, loading,
                   layoutVars, effectPending, editor>>
    /\ UNCHANGED tabVars
    /\ UNCHANGED messageItem
    /\ UNCHANGED messageList
    /\ UNCHANGED timerAge

\* onConfirm after await getGroups(): setGroups, then fetchUnreadCounts()
MergeGroupsCont(i) ==
    LET t == tasks[i] IN
    /\ t.kind = "merge" /\ t.pc = "groupsR"
    /\ groups' = t.r.ids
    /\ groupInfo' = t.r.info
    /\ tasks' = [tasks EXCEPT ![i].pc = "counts"]
    /\ lastOp' = Op("other", NoGroup)
    /\ UNCHANGED <<backendVars, selectedGroupId, unreadCounts, messages, loading,
                   layoutVars, effectPending, modalVars>>
    /\ UNCHANGED <<tabs, activeTab, bTabs, bGroupInfo>>
    /\ UNCHANGED messageItem
    /\ UNCHANGED messageList
    /\ UNCHANGED timerAge

\* onConfirm after await fetchUnreadCounts(): setUnreadCounts, then
\* selectGroup(target.id) is called and not awaited, and the finally block
\* resets the merging flag
MergeCountsCont(i) ==
    LET t == tasks[i] IN
    /\ t.kind = "merge" /\ t.pc = "countsR"
    /\ unreadCounts' = t.r
    /\ selectedGroupId' = t.sel
    /\ effectPending' = (effectPending \/ t.sel # selectedGroupId)
    /\ tasks' = [tasks EXCEPT ![i] =
           [NewTask("selectGroup", "mark", "merge", t.sel, t.arg) EXCEPT !.h = t.h]]
    /\ sidebar' = IF t.stale THEN sidebar ELSE [sidebar EXCEPT !.merging = FALSE]
    /\ lastOp' = Op("mergeCounts", t.sel)
    /\ UNCHANGED <<backendVars, groups, messages, loading, layoutVars, editor>>
    /\ UNCHANGED tabVars
    /\ UNCHANGED messageItem
    /\ UNCHANGED messageList
    /\ UNCHANGED timerAge

\* ------------------------------------------------------- GroupEditModal
\* the chat header's edit button: setEditingGroupId(group.id) and
\* setGroupEditorOpen(true); the modal's effect then runs loadData() and
\* clears the selection and the new group's name
OpenEditor ==
    /\ authState = "authenticated"
    /\ ~effectPending
    /\ ~ModalShown
    /\ selectedGroupId \in groups
    /\ ~(editor.open /\ editor.groupId = selectedGroupId)
    /\ HasFree
    /\ editor' = [editor EXCEPT !.open = TRUE, !.groupId = selectedGroupId,
                                !.selectedEmails = {}, !.named = FALSE]
    /\ tasks' = Spawn(NewTask("loadData", "load", "", selectedGroupId, 0))
    /\ lastOp' = Op("other", NoGroup)
    /\ UNCHANGED <<backendVars, groups, selectedGroupId, unreadCounts, messages,
                   loading, layoutVars, effectPending, sidebar>>
    /\ UNCHANGED tabVars
    /\ UNCHANGED messageItem
    /\ UNCHANGED messageList
    /\ UNCHANGED timerAge

\* get_group and get_group_members of loadData's Promise.all
BackendLoad(i) ==
    /\ tasks[i].pc = "load"
    /\ tasks' = [tasks EXCEPT ![i].pc = "loadR",
           ![i].r = [found |-> tasks[i].sel \in bGroups,
                     members |-> BMembersOf(tasks[i].sel)]]
    /\ UNCHANGED <<backendVars, groups, selectedGroupId, unreadCounts, messages,
                   loading, layoutVars, effectPending, modalVars, lastOp>>
    /\ UNCHANGED tabVars
    /\ UNCHANGED messageItem
    /\ UNCHANGED messageList
    /\ UNCHANGED timerAge

\* loadData after the await: setGroup when a group came back, setMembers
LoadDataCont(i) ==
    LET t == tasks[i] IN
    /\ t.kind = "loadData" /\ t.pc = "loadR"
    /\ editor' = IF t.stale THEN editor
                 ELSE [editor EXCEPT !.loaded = (@ \/ t.r.found),
                                     !.members = t.r.members]
    /\ tasks' = [tasks EXCEPT ![i] = IdleTask]
    /\ lastOp' = Op("other", NoGroup)
    /\ UNCHANGED <<backendVars, groups, selectedGroupId, unreadCounts, messages,
                   loading, layoutVars, effectPending, sidebar>>
    /\ UNCHANGED tabVars
    /\ UNCHANGED messageItem
    /\ UNCHANGED messageList
    /\ UNCHANGED timerAge

\* handleClose: the close and cancel buttons
HandleClose ==
    /\ ModalShown
    /\ editor' = [ClosedEditor EXCEPT !.splitting = editor.splitting]
    /\ lastOp' = Op("other", NoGroup)
    /\ UNCHANGED <<backendVars, groups, selectedGroupId, unreadCounts, messages,
                   loading, layoutVars, effectPending, sidebar, tasks>>
    /\ UNCHANGED tabVars
    /\ UNCHANGED messageItem
    /\ UNCHANGED messageList
    /\ UNCHANGED timerAge

\* toggleEmailSelection(email): a checkbox of the members list
ToggleEmailSelection(e) ==
    /\ ModalShown
    /\ e \in editor.members
    /\ editor' = [editor EXCEPT !.selectedEmails =
                     IF e \in @ THEN @ \ {e} ELSE @ \cup {e}]
    /\ lastOp' = Op("other", NoGroup)
    /\ UNCHANGED <<backendVars, groups, selectedGroupId, unreadCounts, messages,
                   loading, layoutVars, effectPending, sidebar, tasks>>
    /\ UNCHANGED tabVars
    /\ UNCHANGED messageItem
    /\ UNCHANGED messageList
    /\ UNCHANGED timerAge

\* typing into, or clearing, the new group's name
SetNewGroupName(named) ==
    /\ ModalShown
    /\ editor.named # named
    /\ editor' = [editor EXCEPT !.named = named]
    /\ lastOp' = Op("other", NoGroup)
    /\ UNCHANGED <<backendVars, groups, selectedGroupId, unreadCounts, messages,
                   loading, layoutVars, effectPending, sidebar, tasks>>
    /\ UNCHANGED tabVars
    /\ UNCHANGED messageItem
    /\ UNCHANGED messageList
    /\ UNCHANGED timerAge

CanSplitAnySelection(selectedEmails, members, named) ==
    /\ Cardinality(selectedEmails) > 0
    /\ named

\* canSplit, and the guards handleSplit repeats: a selection that is not
\* empty and does not cover the members list, and a name
CanSplit(selectedEmails, members, named) ==
    /\ Cardinality(selectedEmails) > 0
    /\ Cardinality(selectedEmails) < Cardinality(members)
    /\ named

\* the split button: without canSplit the press is refused and nothing
\* happens; otherwise setSplitting(true) and splitGroup(group.id, emails,
\* name) is invoked
HandleSplit ==
    /\ ModalShown
    /\ ~editor.splitting
    /\ FreshGroupId \in GroupIds
    /\ IF CanSplit(editor.selectedEmails, editor.members, editor.named)
       THEN /\ HasFree
            /\ editor' = [editor EXCEPT !.splitting = TRUE]
            /\ tasks' = Spawn(NewTask("split", "split", "", editor.groupId,
                                      editor.selectedEmails))
            /\ lastOp' = Op("handleSplit", editor.groupId)
       ELSE /\ lastOp' = Op("splitRefused", editor.groupId)
            /\ UNCHANGED <<editor, tasks>>
    /\ UNCHANGED <<backendVars, groups, selectedGroupId, unreadCounts, messages,
                   loading, layoutVars, effectPending, sidebar>>
    /\ UNCHANGED tabVars
    /\ UNCHANGED messageItem
    /\ UNCHANGED messageList
    /\ UNCHANGED timerAge

\* split_group, one unit: the named members of the source and their messages
\* move to a new group, whose id is the answer.  It fails, changing nothing,
\* for an unknown source and for a selection that is empty or covers all
\* members of the source, and may fail for a reason of its own.
BackendSplit(i) ==
    LET source == tasks[i].sel
        emails == tasks[i].arg
        moved == emails \cap BMembersOf(source)
    IN
    /\ tasks[i].pc = "split"
    /\ \E fails \in BOOLEAN :
       IF \/ fails
          \/ source \notin bGroups
          \/ emails = {}
          \/ BMembersOf(source) \subseteq emails
       THEN /\ tasks' = [tasks EXCEPT ![i].pc = "splitR", ![i].ok = "failed"]
            /\ UNCHANGED backendVars
       ELSE /\ bGroups' = bGroups \cup {FreshGroupId}
            /\ bMember' = [e \in Emails |->
                              IF e \in moved THEN FreshGroupId ELSE bMember[e]]
            /\ bMsgs' = [m \in BMsgIds |->
                            IF bMsgs[m].email \in moved
                            THEN [bMsgs[m] EXCEPT !.groupId = FreshGroupId]
                            ELSE bMsgs[m]]
            /\ tasks' = [tasks EXCEPT ![i].pc = "splitR", ![i].ok = "ok",
                                      ![i].r = FreshGroupId]
            /\ UNCHANGED remote
    /\ UNCHANGED <<groups, selectedGroupId, unreadCounts, messages, loading,
                   layoutVars, effectPending, modalVars, lastOp>>
    /\ UNCHANGED tabVars
    /\ UNCHANGED messageItem
    /\ UNCHANGED messageList
    /\ UNCHANGED timerAge

\* handleSplit after await splitGroup: a failure is logged and splitting is
\* reset; a success keeps the new id and goes on to getGroups()
SplitCont(i) ==
    LET t == tasks[i] IN
    /\ t.kind = "split" /\ t.pc = "splitR"
    /\ IF t.ok = "ok"
       THEN /\ tasks' = [tasks EXCEPT ![i].pc = "groups", ![i].arg = t.r]
            /\ UNCHANGED editor
       ELSE /\ tasks' = [tasks EXCEPT ![i] = IdleTask]
            /\ editor' = IF t.stale THEN editor
                         ELSE [editor EXCEPT !.splitting = FALSE]
    /\ lastOp' = Op("other", NoGroup)
    /\ UNCHANGED <<backendVars, groups, selectedGroupId, unreadCounts, messages,
                   loading, layoutVars, effectPending, sidebar>>
    /\ UNCHANGED tabVars
    /\ UNCHANGED messageItem
    /\ UNCHANGED messageList
    /\ UNCHANGED timerAge

\* handleSplit after await getGroups(): setGroups, setSelectedGroupId(new
\* id), handleClose(), and the finally block resets splitting.  The unread
\* counts are not fetched.
SplitGroupsCont(i) ==
    LET t == tasks[i] IN
    /\ t.kind = "split" /\ t.pc = "groupsR"
    /\ groups' = t.r.ids
    /\ groupInfo' = t.r.info
    /\ selectedGroupId' = t.arg
    /\ effectPending' = (effectPending \/ t.arg # selectedGroupId)
    /\ editor' = IF t.stale THEN editor ELSE ClosedEditor
    /\ tasks' = [tasks EXCEPT ![i] = IdleTask]
    /\ lastOp' = [op |-> "splitDone", g |-> t.sel, n |-> 0, s |-> t.arg]
    /\ UNCHANGED <<backendVars, unreadCounts, messages, loading, layoutVars,
                   sidebar>>
    /\ UNCHANGED <<tabs, activeTab, bTabs, bGroupInfo>>
    /\ UNCHANGED messageItem
    /\ UNCHANGED messageList
    /\ UNCHANGED timerAge

\* The application signed in, its initial refreshAll completed on a mailbox
\* without mail: the groups are loaded, nothing is selected.
InitReady ==
    /\ bGroups = {1, 2}
    /\ bMember = [e \in Emails |-> BResolveInit(e)]
    /\ bMsgs = <<>>
    /\ remote = <<>>
    /\ groups = {1, 2}
    /\ selectedGroupId = NoGroup
    /\ unreadCounts = EmptyCounts
    /\ messages = <<>>
    /\ loading = FALSE
    /\ syncing = FALSE
    /\ isAuthError = FALSE
    /\ syncError = FALSE
    /\ authState = "authenticated"
    /\ syncIntervalMinutes = DefaultInterval
    /\ timers = PollingEffect(<<>>, syncIntervalMinutes)
    /\ effectPending = FALSE
    /\ editor = ClosedEditor
    /\ sidebar = [merging |-> FALSE, source |-> NoGroup, target |-> NoGroup]
    /\ tasks = [i \in Slots |-> IdleTask]
    /\ lastOp = Op("other", NoGroup)
    /\ tabs = {}
    /\ activeTab = "main"
    /\ groupInfo = [g \in GroupIds |-> DefaultInfo]
    /\ bTabs = {}
    /\ bGroupInfo = [g \in GroupIds |-> DefaultInfo]
    /\ messageItem = Rendered(<<>>)
    /\ timerAge = 0
    /\ messageList = NoJump

\* Message ingestion: mail arrives, the header's sync delivers it, the open
\* group is refetched on selection and on the new-messages event.
IngestNext ==
    \/ MailArrives
    \/ HandleSync
    \/ \E g \in GroupIds : ClickGroup(g)
    \/ SelectionEffect
    \/ NewMessagesEvent
    \/ \E i \in Slots : BackendSyncOk(i)
    \/ \E i \in Slots : BackendRead(i)
    \/ \E i \in Slots : BackendMarkGroupAsRead(i)
    \/ \E i \in Slots : FetchMessagesCont(i)
    \/ \E i \in Slots : HandleSyncCont(i)
    \/ \E i \in Slots : SelectGroupCont(i)

SpecIngest == InitReady /\ [][IngestNext]_vars

\* ------------------------------------------------------------------ claims

\* C1: at most one sync fetch is in flight at any time; a manual refresh, the
\* header sync button, the initial sync or a timer tick arriving during a
\* sync starts no second fetch.
C1_AtMostOneSyncFetch == Cardinality(SyncFetches) <= 1

\* C2: once a sync has failed with AUTH_REQUIRED (the session-expired state
\* isAuthError), no periodic timer tick starts a sync fetch.
C2_NoTickWhileAuthFailed ==
    [][isAuthError =>
         ~(\E i \in Slots : /\ tasks[i].kind = "idle"
                            /\ tasks'[i].pc = "sync"
                            /\ tasks'[i].origin = "timer")]_vars

\* C3: a messageId delivered twice, by a sync result and by a refetch of the
\* open group, is held exactly once by the local message list.
C3_OneMessagePerId ==
    \A i, j \in 1..Len(messages) :
        messages[i].id = messages[j].id => i = j

\* ------------------------------------------------------ the store at rest
\* The mail a store can hold: every message sits in the group owning its
\* address, unread as sync_messages stored it.
StoredMail ==
    UNION {[1..n -> {[email |-> e, groupId |-> BResolveInit(e), isRead |-> FALSE,
                      isSent |-> sent] : e \in Emails, sent \in BOOLEAN}]
           : n \in 0..MaxMsg}

\* The application at rest after a refreshAll: signed in, groups and unread
\* counts as fetched, the open group's messages as fetched, nothing in flight.
InitStore ==
    /\ bGroups = {1, 2}
    /\ bMember = [e \in Emails |-> BResolveInit(e)]
    /\ bMsgs \in StoredMail
    /\ remote = <<>>
    /\ groups = bGroups
    /\ selectedGroupId \in {NoGroup} \cup bGroups
    /\ unreadCounts = BUnreadCounts
    /\ messages = IF selectedGroupId = NoGroup THEN <<>>
                  ELSE BGetMessages(selectedGroupId)
    /\ loading = FALSE
    /\ syncing = FALSE
    /\ isAuthError = FALSE
    /\ syncError = FALSE
    /\ authState = "authenticated"
    /\ syncIntervalMinutes = DefaultInterval
    /\ timers = PollingEffect(<<>>, syncIntervalMinutes)
    /\ effectPending = FALSE
    /\ editor = ClosedEditor
    /\ sidebar = [merging |-> FALSE, source |-> NoGroup, target |-> NoGroup]
    /\ tasks = [i \in Slots |-> IdleTask]
    /\ lastOp = Op("other", NoGroup)
    /\ tabs = {}
    /\ activeTab = "main"
    /\ groupInfo = [g \in GroupIds |-> DefaultInfo]
    /\ bTabs = {}
    /\ bGroupInfo = [g \in GroupIds |-> DefaultInfo]
    /\ messageItem = Rendered(<<>>)
    /\ timerAge = 0
    /\ messageList = NoJump

\* Read state: groups are opened from the list and from notifications,
\* messages are marked read one by one.
ReadNext ==
    \/ \E g \in GroupIds : ClickGroup(g)
    \/ \E g \in GroupIds : NotificationClicked(g)
    \/ \E m \in 1..MaxMsg : MarkAsRead(m)
    \/ SelectionEffect
    \/ \E i \in Slots : BackendRead(i)
    \/ \E i \in Slots : BackendMarkGroupAsRead(i)
    \/ \E i \in Slots : BackendMarkAsRead(i)
    \/ \E i \in Slots : FetchMessagesCont(i)
    \/ \E i \in Slots : SelectGroupCont(i)
    \/ \E i \in Slots : MarkAsReadCont(i)

SpecRead == InitStore /\ [][ReadNext]_vars

\* Merging: a group is dragged onto another and the merge is confirmed.
MergeNext ==
    \/ \E g \in GroupIds : ClickGroup(g)
    \/ \E source, target \in GroupIds : HandleDragEnd(source, target)
    \/ MergeCancel
    \/ MergeConfirm
    \/ SelectionEffect
    \/ \E i \in Slots : BackendMerge(i)
    \/ \E i \in Slots : BackendRead(i)
    \/ \E i \in Slots : BackendMarkGroupAsRead(i)
    \/ \E i \in Slots : MergeCont(i)
    \/ \E i \in Slots : MergeGroupsCont(i)
    \/ \E i \in Slots : MergeCountsCont(i)
    \/ \E i \in Slots : FetchMessagesCont(i)
    \/ \E i \in Slots : SelectGroupCont(i)

SpecMerge == InitStore /\ [][MergeNext]_vars

\* Splitting: the open group is edited and some of its members are split off.
SplitNext ==
    \/ OpenEditor
    \/ HandleClose
    \/ \E e \in Emails : ToggleEmailSelection(e)
    \/ \E named \in BOOLEAN : SetNewGroupName(named)
    \/ HandleSplit
    \/ SelectionEffect
    \/ \E i \in Slots : BackendLoad(i)
    \/ \E i \in Slots : BackendSplit(i)
    \/ \E i \in Slots : BackendRead(i)
    \/ \E i \in Slots : LoadDataCont(i)
    \/ \E i \in Slots : SplitCont(i)
    \/ \E i \in Slots : SplitGroupsCont(i)
    \/ \E i \in Slots : FetchMessagesCont(i)

SpecSplit == InitStore /\ [][SplitNext]_vars

\* ------------------------------------------------------------- read state
\* C4: when markAsRead(m) completes for a message that was unread and not
\* sent, the unread counter of m's group is one below what it was when the
\* message was marked.
C4_MarkAsReadDecrements ==
    lastOp.op = "markAsReadUnread" =>
        CountOf(unreadCounts, lastOp.g) = lastOp.n - 1

\* C5: when selectGroup(g) completes, the first time and again the second
\* time in a row, the unread count of g is 0; no unread count is negative.
C5_MarkGroupReadIdempotent ==
    /\ lastOp.op = "selectGroup" => CountOf(unreadCounts, lastOp.g) = 0
    /\ \A g \in DOMAIN unreadCounts : unreadCounts[g] >= 0

\* two completions of selectGroup(g) in a row, g having shown unread mail
C5_Witness ==
    /\ lastOp.op = "selectGroup" /\ lastOp.n = 2
    /\ BGroupMsgIds(lastOp.g) # {}

\* C10: selectGroup(id) for an id no group has leaves the selected group,
\* the message list and the unread counts as they were.
C10_AbsentGroupNoOp ==
    [][\A i \in Slots :
          (/\ tasks[i].kind = "idle"
           /\ tasks'[i].kind = "selectGroup"
           /\ tasks'[i].sel \notin (groups \cup bGroups))
          => /\ SelectedGroup' = SelectedGroup
             /\ messages' = messages
             /\ unreadCounts' = unreadCounts]_vars

\* ------------------------------------------------------------------ merge
\* C6: when the merge flow is through, the unread count recorded for the
\* target is the sum of the counts both groups had before the merge, and
\* no count is recorded for the source.
C6_MergeSumsUnread ==
    lastOp.op = "mergeDone" =>
        /\ CountOf(unreadCounts, lastOp.g) = lastOp.n
        /\ lastOp.s \notin DOMAIN unreadCounts

\* a step of the merge flow from the confirmation up to the handling of a
\* failed mergeGroups call
MergeStepToFailure(i) ==
    \/ tasks[i].kind = "idle" /\ tasks'[i].kind = "merge"
    \/ tasks[i].pc = "merge" /\ tasks'[i].pc = "mergeR" /\ tasks'[i].ok = "failed"
    \/ tasks[i].pc = "mergeR" /\ tasks[i].ok = "failed" /\ tasks'[i].pc # "mergeR"

\* every stored message sits in the group that owns its address
MembersAndMessagesTogether ==
    \A m \in BMsgIds : bMsgs[m].groupId = bMember[bMsgs[m].email]

\* C7: no step of a merge that fails changes the groups list, the unread
\* counts or the selected group, the failing call changes nothing in the
\* store, and in every state the messages of an address are in the group
\* its member belongs to.
C7_MergeAllOrNothing ==
    /\ []MembersAndMessagesTogether
    /\ [][\A i \in Slots :
            MergeStepToFailure(i) =>
                /\ UNCHANGED <<groups, unreadCounts, selectedGroupId>>
                /\ tasks'[i].pc = "mergeR" => UNCHANGED <<bGroups, bMember, bMsgs>>]_vars

\* a failed merge has been handled while the groups hold unread mail
C7_Witness ==
    /\ lastOp.op = "mergeFailed"
    /\ unreadCounts # EmptyCounts
    /\ selectedGroupId # lastOp.g

\* ------------------------------------------------------------------ split
\* C8: from a state whose selection is empty or covers all members, no
\* step starts a split request, and pressing the split button changes
\* neither the store nor the groups list nor the editor.
C8_InvalidSplitRejected ==
    [][(ModalShown /\ (editor.selectedEmails = {}
                       \/ editor.selectedEmails = editor.members))
        => /\ \A i \in Slots : tasks[i].kind # "split" => tasks'[i].kind # "split"
           /\ lastOp'.op = "splitRefused" =>
                 UNCHANGED <<bGroups, bMember, bMsgs, groups, editor, tasks>>]_vars

\* the split button was pressed with every member selected and a name given
C8_Witness ==
    /\ lastOp.op = "splitRefused"
    /\ ModalShown /\ editor.named
    /\ editor.selectedEmails = editor.members
    /\ Cardinality(editor.members) > 1

\* C9: when a split is through, the unread counts recorded for the source
\* group and for the new group are the numbers of unread, not sent
\* messages the two groups hold.
C9_SplitRecomputesUnread ==
    lastOp.op = "splitDone" =>
        /\ CountOf(unreadCounts, lastOp.g) = BUnread(lastOp.g)
        /\ CountOf(unreadCounts, lastOp.s) = BUnread(lastOp.s)

\* ------------------------------------------------------------ push events
\* C11: a new-messages event handled while no sync fetch is in flight
\* starts a sync fetch.
C11_NewMessagesStartsSync ==
    [][\A i \in Slots :
          (/\ tasks[i].kind = "idle"
           /\ tasks'[i].origin = "new-messages"
           /\ SyncFetches = {})
          => tasks'[i].pc = "sync"]_vars

\* ------------------------------------------------------------ sync errors
\* C12: when a handler that is still mounted learns that its sync failed
\* with an error other than AUTH_REQUIRED, the sync error is shown, the
\* auth-error dialog is not touched, the handler ends and no sync fetch is
\* started in its place.
C12_TransientErrorReported ==
    [][\A i \in Slots :
          (/\ tasks[i].pc = "syncR"
           /\ tasks[i].ok = "transient"
           /\ ~tasks[i].stale
           /\ tasks'[i].pc # "syncR")
          => /\ syncError'
             /\ isAuthError' = isAuthError
             /\ tasks'[i].kind = "idle"
             /\ SyncFetches' \subseteq SyncFetches]_vars

\* ------------------------------------------------------ session and timer
\* The session: the timer refreshes over a filled store, the settings form
\* changes the interval, the user logs out and in again.
SessionNext ==
    \/ PeriodicTick
    \/ ExecuteLogout
    \/ HandleAuthErrorConfirm
    \/ DismissSyncError
    \/ StartLogin
    \/ \E typed \in TypedIntervals : HandleSave(typed)
    \/ \E i \in Slots : BackendSyncOk(i)
    \/ \E i \in Slots : BackendSyncFail(i)
    \/ \E i \in Slots : BackendRead(i)
    \/ \E i \in Slots : RefreshAllSyncCont(i)
    \/ \E i \in Slots : RefreshAllGroupsCont(i)
    \/ \E i \in Slots : RefreshAllCountsCont(i)
    \/ \E i \in Slots : FetchMessagesCont(i)

SpecSession == InitStore /\ [][SessionNext]_vars

C20_OnePollingTimer ==
    /\ Len(timers) <= 1
    /\ timers # <<>> =>
          /\ authState = "authenticated"
          /\ syncIntervalMinutes > 0
          /\ timers[1] = syncIntervalMinutes
    /\ (authState = "authenticated" /\ syncIntervalMinutes > 0) => timers # <<>>

\* the interval was changed to another positive value and the timer re-armed
C20_Witness ==
    /\ syncIntervalMinutes = 1
    /\ timers = <<1>>


\* ------------------------------------------------------------ Sidebar tabs
\* what a tab action leaves alone besides the tab state
nonTabVars == <<bGroups, bMember, bMsgs, remote, selectedGroupId, unreadCounts,
                messages, loading, layoutVars, effectPending, modalVars>>

\* the buckets a group can be listed under: main and the custom tabs
Buckets == {"main"} \cup TabIds

\* the argument updateGroup is called without
AbsentTab == "absent"

VisibleGroupsIgnoringHidden(tab) ==
    {g \in groups :
        IF tab = "main"
        THEN ~groupInfo[g].isHidden /\ groupInfo[g].tabId = NoTab
        ELSE IF tab = "hidden" THEN groupInfo[g].isHidden
        ELSE groupInfo[g].tabId = tab}

\* Sidebar: the groups listed while activeTab is tab
VisibleGroups(tab) ==
    {g \in groups :
        IF tab = "main"
        THEN ~groupInfo[g].isHidden /\ groupInfo[g].tabId = NoTab
        ELSE IF tab = "hidden" THEN groupInfo[g].isHidden
        ELSE ~groupInfo[g].isHidden /\ groupInfo[g].tabId = tab}

\* a click on the main tab, a custom tab or the hidden tab
SelectTab(tab) ==
    /\ authState = "authenticated"
    /\ tab \in {"main", "hidden"} \cup tabs
    /\ activeTab' = tab
    /\ lastOp' = Op("other", NoGroup)
    /\ UNCHANGED <<nonTabVars, groups, tasks, tabs, groupInfo, bTabs,
                   bGroupInfo>>
    /\ UNCHANGED messageItem
    /\ UNCHANGED messageList
    /\ UNCHANGED timerAge

\* context menu of a group: toggleHideGroup(group) calls updateGroup with
\* !group.isHidden and no tabId
ToggleHideGroup(g) ==
    /\ authState = "authenticated"
    /\ ~ModalShown
    /\ g \in groups
    /\ HasFree
    /\ tasks' = Spawn([NewTask("toggleHide", "update", "", NoGroup, g)
                          EXCEPT !.r = [isHidden |-> ~groupInfo[g].isHidden,
                                        tabId |-> AbsentTab]])
    /\ lastOp' = Op("other", NoGroup)
    /\ UNCHANGED <<nonTabVars, groups, tabVars>>
    /\ UNCHANGED messageItem
    /\ UNCHANGED messageList
    /\ UNCHANGED timerAge

\* context menu of a group (a move to main is offered to a group that has a
\* tab): assignGroupToTab(group, tabId) calls updateGroup without the tab
\* first, then tauri.updateGroup with it
AssignGroupToTab(g, tab) ==
    /\ authState = "authenticated"
    /\ ~ModalShown
    /\ g \in groups
    /\ tab \in tabs \cup {NoTab}
    /\ tab = NoTab => groupInfo[g].tabId # NoTab
    /\ HasFree
    /\ tasks' = Spawn([NewTask("assign1", "update", "", NoGroup, g)
                          EXCEPT !.r = [isHidden |-> groupInfo[g].isHidden,
                                        tabId |-> AbsentTab],
                                 !.h = <<tab, groupInfo[g].isHidden>>])
    /\ lastOp' = Op("other", NoGroup)
    /\ UNCHANGED <<nonTabVars, groups, tabVars>>
    /\ UNCHANGED messageItem
    /\ UNCHANGED messageList
    /\ UNCHANGED timerAge

\* backend update_group: replaces the group's attributes; a tabId must name
\* a stored tab; a call without tabId either keeps or clears the stored one.
\* The caller goes on to fetchGroups, or stops on a rejection.
BackendUpdateGroup(i) ==
    LET g == tasks[i].arg
        p == tasks[i].r
    IN
    /\ tasks[i].pc = "update"
    /\ IF g \notin bGroups \/ p.tabId \notin {AbsentTab, NoTab} \cup bTabs
       THEN /\ tasks' = [tasks EXCEPT ![i] = IdleTask]
            /\ UNCHANGED bGroupInfo
       ELSE /\ \E kept \in BOOLEAN :
                 bGroupInfo' = [bGroupInfo EXCEPT ![g] =
                    [isHidden |-> p.isHidden,
                     tabId |-> IF p.tabId # AbsentTab THEN p.tabId
                               ELSE IF kept THEN bGroupInfo[g].tabId
                               ELSE NoTab]]
            /\ tasks' = [tasks EXCEPT ![i].pc = "groups", ![i].r = <<>>]
    /\ UNCHANGED <<nonTabVars, groups, tabs, activeTab, groupInfo, bTabs,
                   lastOp>>
    /\ UNCHANGED messageItem
    /\ UNCHANGED messageList
    /\ UNCHANGED timerAge

\* updateGroup / assignGroupToTab after await fetchGroups(): setGroups; the
\* assignment goes on to its second update, with the tab
UpdateGroupsCont(i) ==
    LET t == tasks[i] IN
    /\ t.kind \in {"toggleHide", "assign1", "assign2"} /\ t.pc = "groupsR"
    /\ groups' = t.r.ids
    /\ groupInfo' = t.r.info
    /\ tasks' = [tasks EXCEPT ![i] =
                    IF t.kind = "assign1"
                    THEN [t EXCEPT !.kind = "assign2", !.pc = "update",
                                   !.r = [isHidden |-> t.h[2],
                                          tabId |-> t.h[1]]]
                    ELSE IdleTask]
    /\ lastOp' = Op("other", NoGroup)
    /\ UNCHANGED <<nonTabVars, tabs, activeTab, bTabs, bGroupInfo>>
    /\ UNCHANGED messageItem
    /\ UNCHANGED messageList
    /\ UNCHANGED timerAge

\* delete-tab dialog confirmed: deleteTab(tabId) is started and not awaited,
\* the active tab falls back to main when it was the deleted one
DeleteTabConfirm(tab) ==
    /\ authState = "authenticated"
    /\ ~ModalShown
    /\ tab \in tabs
    /\ HasFree
    /\ tasks' = Spawn([NewTask("deleteTab", "deleteTab", "", NoGroup, 0)
                          EXCEPT !.h = <<tab>>])
    /\ activeTab' = IF activeTab = tab THEN "main" ELSE activeTab
    /\ lastOp' = Op("other", NoGroup)
    /\ UNCHANGED <<nonTabVars, groups, tabs, groupInfo, bTabs, bGroupInfo>>
    /\ UNCHANGED messageItem
    /\ UNCHANGED messageList
    /\ UNCHANGED timerAge

\* backend delete_tab: the tab row goes, the groups that referenced it get
\* tabId null (ON DELETE SET NULL) and stay; h keeps which groups those were
BackendDeleteTab(i) ==
    LET tab == tasks[i].h[1] IN
    /\ tasks[i].pc = "deleteTab"
    /\ bTabs' = bTabs \ {tab}
    /\ bGroupInfo' = [g \in GroupIds |->
                         IF bGroupInfo[g].tabId = tab
                         THEN [bGroupInfo[g] EXCEPT !.tabId = NoTab]
                         ELSE bGroupInfo[g]]
    /\ tasks' = [tasks EXCEPT
          ![i].pc = "tabs",
          ![i].h = <<tab, {g \in bGroups : bGroupInfo[g].tabId = tab}>>]
    /\ UNCHANGED <<nonTabVars, groups, tabs, activeTab, groupInfo, lastOp>>
    /\ UNCHANGED messageItem
    /\ UNCHANGED messageList
    /\ UNCHANGED timerAge

DeleteTabTabsContOnly(i) ==
    LET t == tasks[i] IN
    /\ t.kind = "deleteTab" /\ t.pc = "tabsR"
    /\ tabs' = t.r
    /\ tasks' = [tasks EXCEPT ![i] = IdleTask]
    /\ lastOp' = Op("other", NoGroup)
    /\ UNCHANGED <<nonTabVars, groups, activeTab, groupInfo, bTabs, bGroupInfo>>
    /\ UNCHANGED messageItem
    /\ UNCHANGED messageList
    /\ UNCHANGED timerAge

\* deleteTab after await fetchTabs(): setTabs, then fetchGroups()
DeleteTabTabsCont(i) ==
    LET t == tasks[i] IN
    /\ t.kind = "deleteTab" /\ t.pc = "tabsR"
    /\ tabs' = t.r
    /\ tasks' = [tasks EXCEPT ![i].pc = "groups", ![i].r = <<>>]
    /\ lastOp' = Op("other", NoGroup)
    /\ UNCHANGED <<nonTabVars, groups, activeTab, groupInfo, bTabs, bGroupInfo>>
    /\ UNCHANGED messageItem
    /\ UNCHANGED messageList
    /\ UNCHANGED timerAge

\* deleteTab after await fetchGroups(): setGroups; the deletion is complete
DeleteTabGroupsCont(i) ==
    LET t == tasks[i] IN
    /\ t.kind = "deleteTab" /\ t.pc = "groupsR"
    /\ groups' = t.r.ids
    /\ groupInfo' = t.r.info
    /\ tasks' = [tasks EXCEPT ![i] = IdleTask]
    /\ lastOp' = [op |-> "deleteTab", g |-> NoGroup,
                  n |-> Cardinality(t.h[2]), s |-> NoGroup]
    /\ UNCHANGED <<nonTabVars, tabs, activeTab, bTabs, bGroupInfo>>
    /\ UNCHANGED messageItem
    /\ UNCHANGED messageList
    /\ UNCHANGED timerAge

\* attributes a stored group can have when the stored tabs are ts
InfosOver(ts) == [isHidden : BOOLEAN, tabId : {NoTab} \cup ts]

\* The application at rest with tabs: signed in, two groups, tabs and group
\* attributes as fetched, nothing in flight.
InitTabs ==
    /\ bGroups = {1, 2}
    /\ bMember = [e \in Emails |-> BResolveInit(e)]
    /\ bMsgs = <<>>
    /\ remote = <<>>
    /\ groups = bGroups
    /\ selectedGroupId = NoGroup
    /\ unreadCounts = EmptyCounts
    /\ messages = <<>>
    /\ loading = FALSE
    /\ syncing = FALSE
    /\ isAuthError = FALSE
    /\ syncError = FALSE
    /\ authState = "authenticated"
    /\ syncIntervalMinutes = DefaultInterval
    /\ timers = PollingEffect(<<>>, syncIntervalMinutes)
    /\ effectPending = FALSE
    /\ editor = ClosedEditor
    /\ sidebar = [merging |-> FALSE, source |-> NoGroup, target |-> NoGroup]
    /\ tasks = [i \in Slots |-> IdleTask]
    /\ lastOp = Op("other", NoGroup)
    /\ bTabs = TabIds
    /\ bGroupInfo \in {f \in [GroupIds -> InfosOver(bTabs)] :
                          \A g \in GroupIds \ bGroups : f[g] = DefaultInfo}
    /\ tabs = bTabs
    /\ activeTab = "main"
    /\ groupInfo = bGroupInfo
    /\ messageItem = Rendered(<<>>)
    /\ timerAge = 0
    /\ messageList = NoJump

\* Tabs: tabs are selected, groups are hidden and shown.
TabsNext ==
    \/ \E tab \in {"main", "hidden"} \cup TabIds : SelectTab(tab)
    \/ \E g \in GroupIds : ToggleHideGroup(g)
    \/ \E i \in Slots : BackendUpdateGroup(i)
    \/ \E i \in Slots : BackendRead(i)
    \/ \E i \in Slots : UpdateGroupsCont(i)

SpecTabs == InitTabs /\ [][TabsNext]_vars

\* as InitTabs, every group shown
InitShownTabs ==
    /\ InitTabs
    /\ \A g \in GroupIds : ~bGroupInfo[g].isHidden

\* Tab deletion: tabs are selected and deleted while groups are moved
\* between tabs.
TabDeleteNext ==
    \/ \E tab \in {"main", "hidden"} \cup TabIds : SelectTab(tab)
    \/ \E g \in GroupIds, tab \in TabIds \cup {NoTab} : AssignGroupToTab(g, tab)
    \/ \E tab \in TabIds : DeleteTabConfirm(tab)
    \/ \E i \in Slots : BackendUpdateGroup(i)
    \/ \E i \in Slots : BackendDeleteTab(i)
    \/ \E i \in Slots : BackendRead(i)
    \/ \E i \in Slots : UpdateGroupsCont(i)
    \/ \E i \in Slots : DeleteTabTabsCont(i)
    \/ \E i \in Slots : DeleteTabGroupsCont(i)

SpecTabDelete == InitShownTabs /\ [][TabDeleteNext]_vars

\* C14: a hidden group is listed under neither main nor any custom tab,
\* whatever its tabId; a shown group is listed under exactly one bucket, the
\* tab its tabId names, or main when its tabId is null.
C14_HiddenWins ==
    \A g \in groups :
        {b \in Buckets : g \in VisibleGroups(b)} =
            IF groupInfo[g].isHidden THEN {}
            ELSE IF groupInfo[g].tabId = NoTab THEN {"main"}
            ELSE {groupInfo[g].tabId}

\* a hidden group that carries a tab is missing from that tab's list while
\* the tab is the active one, and a shown group of the same tab is listed
C14_Witness ==
    /\ activeTab \in tabs
    /\ \E g \in groups :
          /\ groupInfo[g].isHidden /\ groupInfo[g].tabId = activeTab
          /\ g \notin VisibleGroups(activeTab)
    /\ VisibleGroups(activeTab) # {}

C16_SameGroupMergeRejected ==
    /\ [](/\ sidebar.source # NoGroup => sidebar.source # sidebar.target
          /\ \A i \in Slots :
                tasks[i].kind = "merge" => tasks[i].arg # tasks[i].sel)
    /\ [][(lastOp' # lastOp /\ lastOp'.op = "dragRefused"
            /\ lastOp'.g = lastOp'.s)
           => UNCHANGED <<backendVars, groups, selectedGroupId, unreadCounts,
                          messages, loading, layoutVars, effectPending,
                          modalVars, tasks, tabVars>>]_vars

\* a group was dropped on itself while no merge was running
C16_Witness ==
    /\ lastOp.op = "dragRefused" /\ lastOp.g = lastOp.s
    /\ ~sidebar.merging
    /\ sidebar.source = NoGroup


\* ------------------------------------------------------------ MessageItem
nonItemVars == <<backendVars, groups, selectedGroupId, unreadCounts, messages,
                 loading, layoutVars, effectPending, modalVars, tasks, lastOp,
                 tabVars, timerAge, messageList>>

\* the list mounts a MessageItem for a message; the item keeps its message
ShowMessage ==
    /\ messageItem = Rendered(<<>>)
    /\ \E bodyText \in Bodies : messageItem' = Unrendered(bodyText)
    /\ UNCHANGED nonItemVars

\* the MessageItem renders
Render ==
    /\ ~messageItem.rendered
    /\ messageItem' = Rendered(messageItem.bodyText)
    /\ UNCHANGED nonItemVars

\* the expand / collapse button, rendered when needsTruncation
ToggleExpand ==
    /\ messageItem.rendered
    /\ messageItem.needsTruncation
    /\ messageItem' = RenderItem(messageItem.bodyText, ~messageItem.isExpanded)
    /\ UNCHANGED nonItemVars

FooterNext ==
    \/ ShowMessage
    \/ Render
    \/ ToggleExpand

SpecFooter == InitReady /\ [][FooterNext]_vars

HelloDashJohn == <<"H", "e", "l", "l", "o", "\n", "-", "-", "\n", "J", "o", "h", "n", " ", "D", "o", "e">>
Hello == <<"H", "e", "l", "l", "o">>
HelloWorld == <<"H", "e", "l", "l", "o", " ", "w", "o", "r", "l", "d">>

\* C17: for the body "Hello\n--\nJohn Doe" the detector returns the offset
\* that ends "Hello", just before the line "--" and its line break, so the
\* main content is "Hello"; for "Hello world" it returns none-found (-1)
\* and the main content is the whole body.
C17_FooterExample ==
    messageItem.rendered =>
        /\ messageItem.fullBody = HelloDashJohn
           => /\ messageItem.footerStart # -1
              /\ SubSeq(messageItem.fullBody, 1, messageItem.footerStart) = Hello
              /\ messageItem.hasFooter
              /\ messageItem.mainBody = Hello
        /\ messageItem.fullBody = HelloWorld
           => /\ messageItem.footerStart = -1
              /\ ~messageItem.hasFooter
              /\ messageItem.mainBody = HelloWorld

\* the example body has been rendered
C17_Witness ==
    /\ messageItem.rendered
    /\ messageItem.bodyText = HelloDashJohn
    /\ messageItem.footerStart = 5


\* text.endsWith(suffix)
EndsWith(text, suffix) ==
    /\ Len(text) >= Len(suffix)
    /\ SubSeq(text, Len(text) - Len(suffix) + 1, Len(text)) = suffix

\* a line that introduces a quoted earlier message: "On <date> ... wrote:"
\* or "<date> ...:" with the sender word of the Japanese locale
IsQuotedHeader(line) ==
    \/ StartsWith(line, <<"O", "n", " ">>) /\ EndsWith(line, <<"w", "r", "o", "t", "e", ":">>)
    \/ EndsWith(line, <<"u5DEE", "u51FA", "u4EBA", ":">>)

\* C18: when a line introduces a quoted earlier message and no line above it
\* is a signature delimiter, a rule, a mobile signature or a quote line, the
\* detector returns the offset before that line.
C18_QuotedHeaderDetected ==
    messageItem.rendered =>
        LET lines == Split(messageItem.fullBody) IN
        \A i \in 1..Len(lines) :
            (/\ IsQuotedHeader(lines[i])
             /\ \A j \in 1..(i - 1) :
                   /\ ~IsSignature(lines[j]) /\ ~IsRule(lines[j])
                   /\ ~IsMobile(lines[j]) /\ ~IsQuote(lines[j])
                   /\ ~IsQuotedHeader(lines[j]))
            => messageItem.footerStart = FooterOffset(lines, i)


\* C19: in the step in which a successful sync ends (syncMessages takes the
\* backend's answer and drops loading), the shown list holds every message
\* that sync delivered for the group selected at that moment.
C19_SyncShowsNewMessages ==
    [][\A i \in Slots :
          (/\ tasks[i].pc = "syncR" /\ tasks[i].ok = "ok"
           /\ tasks'[i].pc # "syncR"
           /\ selectedGroupId # NoGroup)
          => \A k \in 1..Len(tasks[i].r) :
                tasks[i].r[k].groupId = selectedGroupId
                => \E j \in 1..Len(messages') :
                      messages'[j].id = tasks[i].r[k].id]_vars

\* a line one of the detector's four tests accepts
IsFooterLine(line) ==
    IsSignature(line) \/ IsRule(line) \/ IsMobile(line) \/ IsQuote(line)

C22_DelimiterInFirstLine ==
    (messageItem.rendered /\ IsSignature(Split(messageItem.fullBody)[1]))
    => /\ ~messageItem.hasFooter
       /\ messageItem.mainBody = messageItem.fullBody

\* a body of several lines whose first line is the delimiter
C22_Witness ==
    /\ messageItem.rendered
    /\ LET lines == Split(messageItem.fullBody) IN
       /\ Len(lines) = 3
       /\ lines[1] = <<"-", "-">>
       /\ lines[3] # <<>>
    /\ messageItem.footerStart = 0
    /\ messageItem.mainBody = messageItem.fullBody


\* text.trimEnd(): only the whitespace at the end goes
RECURSIVE TrimEnd(_)
TrimEnd(text) ==
    IF text # <<>> /\ text[Len(text)] \in Whitespace
    THEN TrimEnd(SubSeq(text, 1, Len(text) - 1))
    ELSE text

\* C23: with a footer, the main content is the normalized body up to the
\* footer offset with only its trailing whitespace removed; without one it
\* is the entire normalized body.
C23_MainContentIsTrimmedPrefix ==
    messageItem.rendered =>
        messageItem.mainBody =
            IF messageItem.hasFooter
            THEN TrimEnd(SubSeq(messageItem.fullBody, 1, messageItem.footerStart))
            ELSE messageItem.fullBody

\* C24: the expand button is offered exactly when the body is longer than
\* MAX_LENGTH characters or a footer was found, whether the length is taken
\* of the whole body or of the main content; collapsed, the item shows the
\* main content, cut to its first MAX_LENGTH characters and an ellipsis when
\* it is longer.
C24_ExpandOffered ==
    messageItem.rendered =>
        /\ messageItem.needsTruncation
           <=> (Len(messageItem.fullBody) > MAX_LENGTH \/ messageItem.hasFooter)
        /\ messageItem.needsTruncation
           <=> (Len(messageItem.mainBody) > MAX_LENGTH \/ messageItem.hasFooter)
        /\ ~messageItem.isExpanded =>
              /\ Len(messageItem.displayContent) <= MAX_LENGTH + Len(Ellipsis)
              /\ messageItem.displayContent =
                    IF Len(messageItem.mainBody) <= MAX_LENGTH
                    THEN messageItem.mainBody
                    ELSE SubSeq(messageItem.mainBody, 1, MAX_LENGTH) \o Ellipsis

\* a collapsed item with a footer whose main content alone is over the
\* limit, shown cut
C24_Witness ==
    /\ messageItem.rendered /\ ~messageItem.isExpanded
    /\ messageItem.hasFooter
    /\ Len(messageItem.mainBody) = MAX_LENGTH + 1
    /\ messageItem.needsTruncation
    /\ Len(messageItem.displayContent) = MAX_LENGTH + Len(Ellipsis)

\* C28: a footer is reported for every body in which a line after the first
\* is accepted by one of the detector's tests.
C28_FooterBelowFirstLineReported ==
    (/\ messageItem.rendered
     /\ \E i \in 2..Len(Split(messageItem.fullBody)) :
           IsFooterLine(Split(messageItem.fullBody)[i]))
    => messageItem.hasFooter


\* a getMessages or syncMessages call not yet answered or not yet applied,
\* or a fetch the selection effect is about to start
MessagesInFlight ==
    \/ effectPending
    \/ \E i \in Slots : tasks[i].pc \in {"msgs", "msgsR", "sync", "syncR"}

\* C25: whenever no message fetch and no sync is in flight, every message of
\* the shown list belongs to the selected group, and the list is empty when
\* no group is selected.
C25_ListOfSelectedGroup ==
    ~MessagesInFlight =>
        /\ \A j \in 1..Len(messages) : messages[j].groupId = selectedGroupId
        /\ selectedGroupId = NoGroup => messages = <<>>


\* Unread counts: groups are opened while the list is refreshed.
CountsNext ==
    \/ ManualRefresh
    \/ \E g \in GroupIds : ClickGroup(g)
    \/ SelectionEffect
    \/ \E i \in Slots : BackendSyncOk(i)
    \/ \E i \in Slots : BackendRead(i)
    \/ \E i \in Slots : BackendMarkGroupAsRead(i)
    \/ \E i \in Slots : RefreshAllSyncCont(i)
    \/ \E i \in Slots : RefreshAllGroupsCont(i)
    \/ \E i \in Slots : RefreshAllCountsCont(i)
    \/ \E i \in Slots : FetchMessagesCont(i)
    \/ \E i \in Slots : SelectGroupCont(i)

SpecCounts == InitStore /\ [][CountsNext]_vars

\* a refreshAll that has not applied its fetchUnreadCounts yet
CountsInFlight ==
    \E i \in Slots :
        /\ tasks[i].kind = "refreshAll"
        /\ tasks[i].pc \in {"sync", "syncR", "groups", "groupsR", "counts",
                            "countsR"}

\* C26: when the selected group g has been marked read (selectGroup(g) is
\* through, the store holds no unread message of g, no mail is waiting) and
\* no fetchUnreadCounts is in flight, the local unread count of g is 0.
C26_OpenedGroupHasNoUnread ==
    \A g \in groups :
        (/\ selectedGroupId = g
         /\ \A i \in Slots : tasks[i].kind # "selectGroup"
         /\ BUnread(g) = 0
         /\ remote = <<>>
         /\ ~CountsInFlight)
        => CountOf(unreadCounts, g) = 0


\* ------------------------------------------- useAuth in every hook user
\* checkStatus calls that may be in flight at once
MaxChecks == 3

\* what App renders for an auth state
Screen(state) ==
    IF state = "loading" THEN "spinner"
    ELSE IF state = "authenticated" THEN "AppLayout" ELSE "LoginScreen"

\* components under a screen that call useAuth(): AppLayout and the
\* SettingsModal it always renders; LoginScreen
AuthHookUsers(screen) ==
    IF screen = "AppLayout" THEN 2 ELSE IF screen = "LoginScreen" THEN 1 ELSE 0

\* The checkStatus calls in flight are kept in one task: arg counts those
\* the backend has not answered, pc = "effects" says a screen was mounted
\* and its mount effects are due.
\* checkStatus after await checkAuthStatus(): setAuthState(result); App
\* renders the screen of the result, mounting it when it was not shown
CheckStatusCont(i) ==
    LET t == tasks[i] IN
    /\ t.kind = "checkStatus" /\ t.arg > 0
    /\ \E result \in {"needs_config", "unauthenticated", "authenticated"} :
         LET mounts == Screen(result) # Screen(authState) IN
         /\ t.pc = "effects" => ~mounts
         /\ authState' = result
         /\ tasks' = IF t.arg = 1 /\ t.pc # "effects" /\ ~mounts
                     THEN [tasks EXCEPT ![i] = IdleTask]
                     ELSE [tasks EXCEPT ![i].arg = t.arg - 1,
                                        ![i].pc = IF mounts THEN "effects"
                                                  ELSE t.pc]
    /\ lastOp' = Op("checkStatus", NoGroup)
    /\ UNCHANGED <<backendVars, groups, selectedGroupId, unreadCounts, messages,
                   loading, syncing, isAuthError, syncError,
                   syncIntervalMinutes, timers, effectPending, modalVars>>
    /\ UNCHANGED tabVars
    /\ UNCHANGED messageItem
    /\ UNCHANGED messageList
    /\ UNCHANGED timerAge

\* the mount effects of the screen App has just rendered: every useAuth()
\* under it calls checkStatus, which starts with setAuthState('loading');
\* AppLayout also starts refreshAll and arms the polling timer.  App then
\* renders the spinner, so the screen is unmounted again: the timer is
\* cleared and the refreshAll just started runs on without its component.
MountEffects(i) ==
    LET t == tasks[i]
        screen == Screen(authState) IN
    /\ t.kind = "checkStatus" /\ t.pc = "effects"
    /\ t.arg + AuthHookUsers(screen) <= MaxChecks
    /\ authState' = "loading"
    /\ IF screen = "AppLayout"
       THEN /\ HasFree
            /\ syncError' = FALSE
            /\ loading' = TRUE
            /\ isAuthError' = FALSE
            /\ tasks' = [Spawn([NewTask("refreshAll", "sync", "mount",
                                        selectedGroupId, 0)
                                EXCEPT !.stale = TRUE])
                         EXCEPT ![i].arg = t.arg + AuthHookUsers(screen),
                                ![i].pc = "statusR"]
            /\ timers' = PollingCleanup(PollingEffect(timers,
                                                      syncIntervalMinutes))
       ELSE /\ tasks' = [tasks EXCEPT ![i].arg = t.arg + AuthHookUsers(screen),
                                      ![i].pc = "statusR"]
            /\ UNCHANGED <<syncError, loading, isAuthError, timers>>
    /\ lastOp' = Op("mount", NoGroup)
    /\ UNCHANGED <<backendVars, groups, selectedGroupId, unreadCounts, messages,
                   syncing, syncIntervalMinutes, effectPending, modalVars>>
    /\ UNCHANGED tabVars
    /\ UNCHANGED messageItem
    /\ UNCHANGED messageList
    /\ timerAge' = 0

\* the application has started: App's own useAuth effect has called
\* checkStatus, nothing is cached yet
InitAuth ==
    /\ bGroups = {1, 2}
    /\ bMember = [e \in Emails |-> BResolveInit(e)]
    /\ bMsgs \in StoredMail
    /\ remote = <<>>
    /\ groups = {}
    /\ selectedGroupId = NoGroup
    /\ unreadCounts = EmptyCounts
    /\ messages = <<>>
    /\ loading = FALSE
    /\ syncing = FALSE
    /\ isAuthError = FALSE
    /\ syncError = FALSE
    /\ authState = "loading"
    /\ syncIntervalMinutes = DefaultInterval
    /\ timers = <<>>
    /\ effectPending = FALSE
    /\ editor = ClosedEditor
    /\ sidebar = [merging |-> FALSE, source |-> NoGroup, target |-> NoGroup]
    /\ tasks = [i \in Slots |->
                   IF i = 1 THEN NewTask("checkStatus", "statusR", "mount",
                                         NoGroup, 1)
                   ELSE IdleTask]
    /\ lastOp = Op("other", NoGroup)
    /\ tabs = {}
    /\ activeTab = "main"
    /\ groupInfo = [g \in GroupIds |-> DefaultInfo]
    /\ bTabs = {}
    /\ bGroupInfo = [g \in GroupIds |-> DefaultInfo]
    /\ messageItem = Rendered(<<>>)
    /\ timerAge = 0
    /\ messageList = NoJump

AuthNext ==
    \/ \E i \in Slots : CheckStatusCont(i)
    \/ \E i \in Slots : MountEffects(i)
    \/ \E i \in Slots : BackendSyncOk(i)
    \/ \E i \in Slots : BackendSyncFail(i)
    \/ \E i \in Slots : BackendRead(i)
    \/ \E i \in Slots : RefreshAllSyncCont(i)
    \/ \E i \in Slots : RefreshAllGroupsCont(i)
    \/ \E i \in Slots : RefreshAllCountsCont(i)

SpecAuth == InitAuth /\ [][AuthNext]_vars

\* C27: a step that takes authState away from 'authenticated' is a logout.
C27_AuthenticatedUntilLogout ==
    [][(authState = "authenticated" /\ authState' # "authenticated")
        => lastOp'.op = "logout"]_vars


\* ----------------------------------------------------- the polling clock
\* a minute passes on the live polling timer, which has not run out yet
MinutePasses ==
    /\ timers # <<>>
    /\ timerAge < timers[1]
    /\ timerAge' = timerAge + 1
    /\ lastOp' = Op("minute", NoGroup)
    /\ UNCHANGED <<backendVars, groups, selectedGroupId, unreadCounts, messages,
                   loading, layoutVars, effectPending, modalVars, tasks>>
    /\ UNCHANGED tabVars
    /\ UNCHANGED messageItem
    /\ UNCHANGED messageList

\* the live timer has run out: its callback runs
TimerFires ==
    /\ timers # <<>>
    /\ timerAge = timers[1]
    /\ PeriodicTick

PollingNext ==
    \/ MinutePasses
    \/ TimerFires
    \/ \E g \in GroupIds : ClickGroup(g)
    \/ SelectionEffect
    \/ \E i \in Slots : BackendSyncOk(i)
    \/ \E i \in Slots : BackendRead(i)
    \/ \E i \in Slots : BackendMarkGroupAsRead(i)
    \/ \E i \in Slots : RefreshAllSyncCont(i)
    \/ \E i \in Slots : RefreshAllGroupsCont(i)
    \/ \E i \in Slots : RefreshAllCountsCont(i)
    \/ \E i \in Slots : FetchMessagesCont(i)
    \/ \E i \in Slots : SelectGroupCont(i)

\* at rest with an empty store, no group open, the timer just armed
InitPolling == InitStore /\ bMsgs = <<>> /\ selectedGroupId = NoGroup

SpecPolling == InitPolling /\ [][PollingNext]_vars

\* C29: while the interval stays as it is, the time counted by the live
\* polling timer is thrown away only when the timer fires; in particular
\* not by a change of the selected group.
C29_TimerNotRestarted ==
    [][(/\ timers # <<>> /\ timers' = timers
        /\ syncIntervalMinutes' = syncIntervalMinutes
        /\ timerAge' < timerAge)
        => timerAge = timers[1]]_vars

\* ------------------------------------------------- MessageList: jumping
\* maxRetries of the scroll interval
MaxRetries == 30

nonListVars == <<backendVars, groups, selectedGroupId, unreadCounts, messages,
                 loading, layoutVars, effectPending, modalVars, tasks, lastOp,
                 tabVars, timerAge, messageItem>>

\* the dependencies of the jump effect as they are now
JumpDeps == <<messageList.target, loading, messages>>

\* messages.some(m => m.id === targetMessageId)
IsInList(target) == \E j \in 1..Len(messages) : messages[j].id = target

\* the jump effect has run for the dependencies as they are now
JumpSettled == messageList.deps = JumpDeps

\* ChatHeader.handleJump on a search result: selectGroup(groupId), then
\* setTargetMessageId(messageId).  React runs the effects of a render before
\* the next user event and before the next timer callback.
HandleJump(k) ==
    /\ authState = "authenticated"
    /\ ~effectPending
    /\ JumpSettled
    /\ k \in 1..Len(bMsgs)
    /\ bMsgs[k].groupId \in groups
    /\ StartSelectGroup(bMsgs[k].groupId)
    /\ messageList' = [messageList EXCEPT !.target = k]
    /\ lastOp' = Op("jump", bMsgs[k].groupId)
    /\ UNCHANGED <<backendVars, groups, unreadCounts, messages, loading,
                   layoutVars, modalVars>>
    /\ UNCHANGED tabVars
    /\ UNCHANGED messageItem
    /\ UNCHANGED timerAge

\* the jump effect runs again because targetMessageId, loading or messages
\* changed: its cleanup clears the scroll interval, and a new interval is
\* started only for a target that is in the loaded, non-empty list
JumpEffect ==
    /\ messageList.deps # JumpDeps
    /\ messageList' =
          [messageList EXCEPT
              !.deps = JumpDeps,
              !.retries = 0,
              !.scrolling = /\ messageList.target # NoMessage
                            /\ ~loading
                            /\ Len(messages) > 0
                            /\ IsInList(messageList.target)]
    /\ UNCHANGED nonListVars

\* the scroll interval's callback: the element is looked up; found, the
\* interval is cleared, the list scrolled and the reset of the target
\* scheduled; not found, a retry is counted and the last one resets
ScrollTick ==
    /\ messageList.scrolling
    /\ JumpSettled
    /\ \E found \in BOOLEAN :
         /\ found => (IsInList(messageList.target) /\ ~loading)
         /\ messageList' =
               IF found
               THEN [messageList EXCEPT !.scrolling = FALSE, !.clearDue = TRUE]
               ELSE IF messageList.retries + 1 >= MaxRetries
               THEN [messageList EXCEPT !.scrolling = FALSE,
                                        !.retries = messageList.retries + 1,
                                        !.target = NoMessage]
               ELSE [messageList EXCEPT !.retries = messageList.retries + 1]
    /\ UNCHANGED nonListVars

\* setTimeout(() => setTargetMessageId(null), 100) runs
ClearTarget ==
    /\ messageList.clearDue
    /\ JumpSettled
    /\ messageList' = [messageList EXCEPT !.clearDue = FALSE,
                                          !.target = NoMessage]
    /\ UNCHANGED nonListVars

\* at rest, one stored message in each group, no group open
InitJump ==
    /\ InitStore
    /\ Len(bMsgs) = 2 /\ bMsgs[1].groupId = 1 /\ bMsgs[2].groupId = 2
    /\ \A k \in 1..2 : ~bMsgs[k].isSent /\ bMsgs[k].email \in {"a", "c"}
    /\ selectedGroupId = NoGroup

JumpNext ==
    \/ \E k \in 1..MaxMsg : HandleJump(k)
    \/ JumpEffect
    \/ ScrollTick
    \/ ClearTarget
    \/ \E g \in GroupIds : ClickGroup(g)
    \/ SelectionEffect
    \/ \E i \in Slots : BackendRead(i)
    \/ \E i \in Slots : BackendMarkGroupAsRead(i)
    \/ \E i \in Slots : FetchMessagesCont(i)
    \/ \E i \in Slots : SelectGroupCont(i)

SpecJump == InitJump /\ [][JumpNext]_vars

\* nothing is left that could end a jump: no handler in flight, no effect
\* due, no scroll interval and no reset timeout live
JumpAtRest ==
    /\ \A i \in Slots : tasks[i].kind = "idle"
    /\ ~effectPending
    /\ JumpSettled
    /\ ~messageList.scrolling
    /\ ~messageList.clearDue

\* C30: a jump request does not stay open when nothing is left to end it:
\* at rest targetMessageId is null.
C30_JumpEnds == JumpAtRest => messageList.target = NoMessage

====
